---------------------------- MODULE Spec2Model ----------------------------
(***************************************************************************)
(* A model of the parallel chunk-processing and session-coordination       *)
(* engine of audiobook-creator-tts:                                        *)
(*   parallel_coordinator.py      ParallelCoordinator                      *)
(*   worker_browser.py            WorkerBrowser.process_assigned_chunks    *)
(*   main_document_mode_parallel.py  worker_process_wrapper,               *)
(*                                run_parallel_processing                  *)
(*   main_document_mode.py        analyze_progress,                        *)
(*                                process_chapters_to_speech               *)
(*   main_playwright_persistent.py  PersistentBrowser.request_audio        *)
(*                                                                         *)
(* The module holds several specifications over one set of variables:      *)
(*   Spec         a run of run_parallel_processing (workers interleaved)   *)
(*   SpecDist     ParallelCoordinator.distribute_chunks on any chunk list  *)
(*   SpecCoord    ParallelCoordinator.update_worker_progress               *)
(*   SpecSerial   process_chapters_to_speech, runs repeated over one       *)
(*                output directory (fresh run, abort, resume)              *)
(*   SpecSession  a WorkerBrowser session: request_audio and restart       *)
(*   SpecAnalyze  analyze_progress called on any output directory          *)
(*   SpecSafety   run_safety_test: two test workers under one gather       *)
(*   SpecCalc     calculate_optimal_workers, _calculate_eta,               *)
(*                chunk_chapter_text, find_existing_audio_directory,       *)
(*                calculate_adaptive_delay, each applied to arguments      *)
(*                from bounded sets                                        *)
(*   SpecMark     the mark_worker_* methods called in any order            *)
(*   SpecRetry    one process_assigned_chunks call on any assignment       *)
(*   SpecChunk    chunk_chapter_text run step by step                      *)
(*   SpecCleanup  run_parallel_processing or run_safety_test               *)
(* A specification leaves the variables of the others at their idle value. *)
(***************************************************************************)
EXTENDS Integers, Sequences, FiniteSets, TLC

(***************************************************************************)
(* Bounds of the model.                                                    *)
(***************************************************************************)
\* total number of chunks of a job (Spec, SpecSerial, SpecAnalyze)
MaxChunks == 2
\* number of workers of a parallel run (Spec)
MaxWorkers == 2
\* sequential_batch_size of the configuration (Spec)
MaxBatch == 2
\* total_chunks handed to calculate_optimal_workers and _calculate_eta (SpecCalc)
MaxTotal == 6
\* the counts a configuration file sets (SpecCalc)
MaxSetting == 3
\* length of a chapter text and the chunk_size it is cut by (SpecCalc)
MaxText == 4
MaxChunkSize == 3
\* entries of the audio directory and their modification times (SpecCalc)
MaxEntries == 2
MaxMtime == 2
\* length of the assignment of one process_assigned_chunks call (SpecRetry)
MaxAssign == 2
\* characters of a chapter text chunked step by step (SpecChunk)
MaxLoopText == 3
\* response times a session has tracked (SpecCalc)
MaxTimes == 4
\* number of chapters of a book the safety test is run on (SpecSafety)
MaxSafetyChapters == 2
\* the number of chunks run_safety_test stops collecting at: 100 in the
\* code ("if len(test_chunks) >= 100: break"), fewer in the model to keep
\* the two assignments short
SafetyCap == 14
\* length of the chunk list handed to distribute_chunks (SpecDist)
MaxLen == 4
\* distinct chunk tuples the lists handed to distribute_chunks draw from
MaxItem == 3
\* coordinator sizes in SpecDist
MaxDistWorkers == 3
\* number of workers of the coordinator (SpecCoord)
MaxCoordWorkers == 2
\* largest cumulative count passed to update_worker_progress (SpecCoord)
MaxCount == 1
\* requests one session makes before it is restarted (SpecSession)
MaxRequests == 57
\* the first requests of a session, which may fail or meet a CAPTCHA; the
\* later ones succeed (SpecSession)
MaxTrouble == 2

(***************************************************************************)
(* Small helpers.                                                          *)
(***************************************************************************)
RECURSIVE SeqSum(_)
SeqSum(s) == IF s = <<>> THEN 0 ELSE Head(s) + SeqSum(Tail(s))

RECURSIVE SumOver(_, _)
\* sum(f[x] for x in S)
SumOver(f, S) ==
    IF S = {} THEN 0
    ELSE LET x == CHOOSE y \in S : TRUE IN f[x] + SumOver(f, S \ {x})

Range(s) == {s[i] : i \in 1..Len(s)}

\* number of positions of s that hold x
Count(s, x) == Cardinality({i \in 1..Len(s) : s[i] = x})

\* f"{n:02d}" for the chapter numbers of the model
Fmt2(n) == <<"01", "02", "03", "04", "05", "06", "07", "08", "09">>[n]

(***************************************************************************)
(* Chapters (main_document_mode.py, class Chapter).  A chapter is          *)
(* [number, dir_name, chunks]: dir_name is kept as its "-"-separated       *)
(* parts, chunks as the number of chunks of the chapter (the texts are     *)
(* opaque).                                                                *)
(***************************************************************************)
\* DocumentParser._extract_from_epub_toc: the chapter made of the idx-th
\* TOC item, storyStart front-matter items coming first.  Front matter is
\* numbered by front_matter_num, story chapters by story_chapter_num, and
\* chapter.number is that counter in both cases.
TocChapter(idx, storyStart, nchunks) ==
    IF idx <= storyStart
    THEN [number   |-> idx,
          dir_name |-> <<"00", Fmt2(idx), "title">>,
          chunks   |-> nchunks]
    ELSE [number   |-> idx - storyStart,
          dir_name |-> <<Fmt2(idx - storyStart), "title">>,
          chunks   |-> nchunks]

\* the chapter list of a TOC whose items have sizes[i] chunks each
TocChapters(sizes, storyStart) ==
    [i \in 1..Len(sizes) |-> TocChapter(i, storyStart, sizes[i])]

\* chunk counts per chapter: every chapter has text, hence a chunk
ChapterSizes ==
    {s \in UNION {[1..k -> 1..MaxChunks] : k \in 1..MaxChunks} :
        SeqSum(s) <= MaxChunks}

\* the chapter plans of the model: front matter, if any, is followed by at
\* least one story chapter (story_start_idx is the first story item)
ChapterPlans ==
    UNION {{TocChapters(s, f) : f \in 0..(Len(s) - 1)} : s \in ChapterSizes}

TotalChunks(chs) == SeqSum([i \in 1..Len(chs) |-> chs[i].chunks])

(***************************************************************************)
(* Artifact paths.  A path is [dir, kind, prefix, idx]; a chunk file is    *)
(* f"{dir_prefix}-chunk-{idx}.mp3", the chapter file f"{dir_name}.mp3".    *)
(***************************************************************************)
\* dir_prefix: split("-")[0], or parts[0]-parts[1] for a "00-" directory
DirPrefix(dir_name) ==
    IF dir_name[1] = "00" /\ Len(dir_name) > 1
    THEN <<dir_name[1], dir_name[2]>>
    ELSE <<dir_name[1]>>

ChunkFile(dir_name, idx) ==
    [dir |-> dir_name, kind |-> "chunk", prefix |-> DirPrefix(dir_name), idx |-> idx]

ConcatFile(dir_name) ==
    [dir |-> dir_name, kind |-> "chapter", prefix |-> dir_name, idx |-> 0]


(***************************************************************************)
(* The file system: a function from the paths that exist to "full" (a      *)
(* file that holds its whole payload), "partial" (a file that holds the    *)
(* beginning of its payload) or "empty" (a zero-length file).              *)
(***************************************************************************)
Exists(d, p) == p \in DOMAIN d
GetSize(d, p) == IF d[p] = "full" THEN 2 ELSE IF d[p] = "partial" THEN 1 ELSE 0
WriteFile(d, p, content) == [q \in (DOMAIN d) \cup {p} |-> IF q = p THEN content ELSE d[q]]
RemoveFile(d, p) == [q \in (DOMAIN d) \ {p} |-> d[q]]
EmptyDisk == [q \in {} |-> "full"]

(***************************************************************************)
(* analyze_progress (main_document_mode.py).                               *)
(***************************************************************************)
\* the chunk indices of one chapter that analyze_progress appends to
\* missing_chunks: all of them when the chapter file is absent or empty and
\* the chunk file is absent or empty, none when the chapter file is there
AnalyzeChapter(d, ch) ==
    IF Exists(d, ConcatFile(ch.dir_name)) /\ GetSize(d, ConcatFile(ch.dir_name)) > 0
    THEN {}
    ELSE {i \in 1..ch.chunks :
            ~(Exists(d, ChunkFile(ch.dir_name, i))
              /\ GetSize(d, ChunkFile(ch.dir_name, i)) > 0)}

\* missing_chunks as the set of its (chapter.number, chunk_idx) pairs
AnalyzeMissing(d, chs) ==
    UNION {{<<chs[c].number, i>> : i \in AnalyzeChapter(d, chs[c])} : c \in 1..Len(chs)}

\* completed_chunks, the count analyze_progress returns
AnalyzeCompleted(d, chs) ==
    SeqSum([c \in 1..Len(chs) |-> chs[c].chunks - Cardinality(AnalyzeChapter(d, chs[c]))])

(***************************************************************************)
(* ParallelCoordinator (parallel_coordinator.py).  The coordinator is one  *)
(* record; every method is an operator from the record to the record after *)
(* the call.  start_time and end_time hold FALSE for None, TRUE once       *)
(* stamped.                                                                *)
(***************************************************************************)
\* __init__
CoordNew(total, n) ==
    [total_chunks      |-> total,
     num_workers       |-> n,
     chunk_assignments |-> [w \in {} |-> <<>>],
     worker_progress   |-> [w \in 1..n |->
                              [total_chunks     |-> 0,
                               completed_chunks |-> 0,
                               failed_chunks    |-> 0,
                               status           |-> "initializing"]],
     overall_completed |-> 0,
     overall_failed    |-> 0,
     start_time        |-> FALSE,
     end_time          |-> FALSE]

\* RoundRobin with the worker id taken from the 1-based position
RECURSIVE RoundRobinShifted(_, _, _, _)
RoundRobinShifted(chunks, n, i, acc) ==
    IF i > Len(chunks) THEN acc
    ELSE LET worker_id == (i % n) + 1
         IN RoundRobinShifted(chunks, n, i + 1,
                       [acc EXCEPT ![worker_id] = Append(@, chunks[i])])

\* the round-robin loop of distribute_chunks: chunk i (0-based idx i - 1)
\* is appended to the list of worker ((i - 1) % num_workers) + 1
RECURSIVE RoundRobin(_, _, _, _)
RoundRobin(chunks, n, i, acc) ==
    IF i > Len(chunks) THEN acc
    ELSE LET worker_id == ((i - 1) % n) + 1
         IN RoundRobin(chunks, n, i + 1,
                       [acc EXCEPT ![worker_id] = Append(@, chunks[i])])

distribute_chunks(c, chunks) ==
    LET assigned == RoundRobin(chunks, c.num_workers, 1,
                               [w \in 1..c.num_workers |-> <<>>])
    IN [c EXCEPT !.chunk_assignments = assigned,
                 !.worker_progress =
                     [w \in DOMAIN c.worker_progress |->
                        [c.worker_progress[w] EXCEPT !.total_chunks = Len(assigned[w])]]]

\* get_worker_assignment: chunk_assignments.get(worker_id, [])
get_worker_assignment(c, w) ==
    IF w \in DOMAIN c.chunk_assignments THEN c.chunk_assignments[w] ELSE <<>>

\* _update_overall_stats adding to the running totals instead of recomputing
update_overall_statsAccumulating(c) ==
    [c EXCEPT !.overall_completed =
                  @ + SumOver([w \in DOMAIN c.worker_progress |->
                                 c.worker_progress[w].completed_chunks],
                              DOMAIN c.worker_progress),
              !.overall_failed =
                  @ + SumOver([w \in DOMAIN c.worker_progress |->
                                 c.worker_progress[w].failed_chunks],
                              DOMAIN c.worker_progress)]

\* _update_overall_stats
update_overall_stats(c) ==
    [c EXCEPT !.overall_completed =
                  SumOver([w \in DOMAIN c.worker_progress |->
                             c.worker_progress[w].completed_chunks],
                          DOMAIN c.worker_progress),
              !.overall_failed =
                  SumOver([w \in DOMAIN c.worker_progress |->
                             c.worker_progress[w].failed_chunks],
                          DOMAIN c.worker_progress)]

update_worker_progress(c, w, completed, failed, status) ==
    IF w \in DOMAIN c.worker_progress
    THEN update_overall_stats(
            [c EXCEPT !.worker_progress[w].completed_chunks = completed,
                      !.worker_progress[w].failed_chunks = failed,
                      !.worker_progress[w].status = status])
    ELSE c

\* mark_worker_completed stamping end_time without looking at the others
mark_worker_completedStamping(c, w) ==
    IF w \in DOMAIN c.worker_progress
    THEN [c EXCEPT !.worker_progress[w].status = "completed", !.end_time = TRUE]
    ELSE c

\* parallel_coordinator.py lines 163-170
mark_worker_completed(c, w) ==
    LET c1 == IF w \in DOMAIN c.worker_progress
              THEN [c EXCEPT !.worker_progress[w].status = "completed"]
              ELSE c
    IN IF \A v \in DOMAIN c1.worker_progress : c1.worker_progress[v].status = "completed"
       THEN [c1 EXCEPT !.end_time = TRUE]
       ELSE c1

mark_worker_failed(c, w) ==
    IF w \in DOMAIN c.worker_progress
    THEN [c EXCEPT !.worker_progress[w].status = "failed"]
    ELSE c

\* get_all_failed_chunks: the loop over chunk_assignments reads each
\* worker's assigned indices and its failed count and appends nothing
RECURSIVE FailedChunksLoop(_, _, _)
FailedChunksLoop(c, w, failed_chunks) ==
    IF w > Len(c.chunk_assignments) THEN failed_chunks
    ELSE LET progress == c.worker_progress[w]
             assigned_indices == {c.chunk_assignments[w][k].idx :
                                     k \in 1..Len(c.chunk_assignments[w])}
         IN IF progress.failed_chunks > 0
            THEN FailedChunksLoop(c, w + 1, failed_chunks)   \* pass
            ELSE FailedChunksLoop(c, w + 1, failed_chunks)

get_all_failed_chunks(c) == FailedChunksLoop(c, 1, <<>>)


(***************************************************************************)
(* State.                                                                  *)
(***************************************************************************)
VARIABLES
    chapters,      \* the chapter plan of the job (Spec, SpecSerial)
    disk,          \* the output directory (Spec, SpecSerial)
    coordinator,   \* the ParallelCoordinator (Spec, SpecDist, SpecCoord)
    rpc,           \* run_parallel_processing: "init", "gathering", "done"
    workers,       \* per worker: the WorkerBrowser and its wrapper's position
    merged,        \* all_completed_chunks, all_failed_chunks, the returned pair
    chunkLog,      \* history: per global chunk index, how its attempts went
    raised,        \* history: per worker, an exception was raised in its run
    subLog,        \* history: per worker, the chunks it has submitted, in order
    waiting,       \* the worker whose input() call holds the event loop, or 0
    launch,        \* run_parallel_processing: strategy, batch size and the
                   \* worker_process_wrapper coroutines made so far (tasks)
    chunksIn,      \* the list handed to distribute_chunks (SpecDist)
    latest,        \* history: per worker, the counts of its latest
                   \* update_worker_progress call (SpecCoord)
    ser,           \* process_chapters_to_speech: its locals and position
    hasDir,        \* an output directory of this book exists
    submitted,     \* history: chunks request_audio was called for in this run
    atStart,       \* history: the directory as the run found it
    session,       \* the WorkerBrowser session request_audio works on
    streak,        \* history: successful requests in a row since the last
                   \* pause, failure or (re)start of the session
    sentAt,        \* history: streak when the latest request was sent
    paused,        \* history: the latest request_audio call paused for a CAPTCHA
    lastCall,      \* history: the latest call on the session, what it did and
                   \* the session it found
    analysis,      \* history: the analyze_progress calls made since the
                   \* directory was last written (SpecAnalyze)
    safety,        \* run_safety_test: its locals and its two test workers
    fcall,         \* a call of a function: its arguments and what it returned
    marked         \* the worker ids mark_worker_completed was called with

parVars == <<rpc, workers, merged, chunkLog, raised, subLog, waiting, launch>>
coordVars == <<chunksIn, latest>>
serVars == <<ser, hasDir, submitted, atStart>>
sessVars == <<session, streak, sentAt, paused, lastCall>>
anVars == <<analysis>>
auxVars == <<safety, fcall, marked>>
vars == <<chapters, disk, coordinator, parVars, coordVars, anVars, auxVars, serVars, sessVars>>

\* what the variables of the other specifications hold while one runs
ParIdle ==
    /\ rpc = "idle"
    /\ workers = <<>>
    /\ merged = [all_completed_chunks |-> {}, all_failed_chunks |-> {}, returned |-> <<0, 0>>]
    /\ chunkLog = <<>>
    /\ raised = <<>>
    /\ subLog = <<>>
    /\ waiting = 0
    /\ launch = [strategy |-> "none"]
CoordIdle ==
    /\ chunksIn = <<>>
    /\ latest = <<>>
JobIdle ==
    /\ chapters = <<>>
    /\ disk = [q \in {} |-> "full"]
SessionIdle ==
    /\ session = <<>>
    /\ streak = 0
    /\ sentAt = 0
    /\ paused = FALSE
    /\ lastCall = [op |-> "none"]
NoAnalysis == [calls |-> 0]
AnalysisIdle == analysis = NoAnalysis
AuxIdle ==
    /\ safety = [pc |-> "idle"]
    /\ fcall = [fn |-> "none"]
    /\ marked = {}
SerIdle ==
    [pc |-> "idle", resume_mode |-> FALSE, missing_chunks |-> {},
     ci |-> 0, ki |-> 0, success_count |-> 0, failed_chunks |-> <<>>,
     chapter_success_count |-> 0, chapter_chunk_files |-> <<>>]
SerialIdle ==
    /\ ser = SerIdle
    /\ hasDir = FALSE
    /\ submitted = {}
    /\ atStart = [q \in {} |-> "full"]

(***************************************************************************)
(* WorkerBrowser.process_assigned_chunks (worker_browser.py): the retry    *)
(* loop of one chunk.  An attempt is what request_audio returned ("bytes", *)
(* "null" for None or empty bytes, "RATE_LIMIT") and what the call that    *)
(* follows it does: restart() after RATE_LIMIT may raise, and after bytes   *)
(* open() may raise, or write() once open() has created the file, before   *)
(* any of the payload reached it ("write_raises") or after part of it did  *)
(* ("write_short": the disk fills up, the process is stopped).             *)
(***************************************************************************)
max_retries == 3

AttemptOutcomes ==
    {[audio |-> "bytes",      then |-> "ok"],
     [audio |-> "bytes",      then |-> "open_raises"],
     [audio |-> "bytes",      then |-> "write_raises"],
     [audio |-> "bytes",      then |-> "write_short"],
     [audio |-> "null",       then |-> "ok"],
     [audio |-> "RATE_LIMIT", then |-> "ok"],
     [audio |-> "RATE_LIMIT", then |-> "restart_raises"]}

\* the attempts of one chunk: what each request_audio call would return.
\* The loop stops at bytes and at an exception, so the attempts after one
\* are never made; they are fixed to keep each run listed once.
Stops(o) == o.audio = "bytes" \/ o.then # "ok"
AttemptSeqs ==
    {outs \in [1..max_retries -> AttemptOutcomes] :
        \A i \in 1..max_retries : \A j \in 1..max_retries :
            (i < j /\ Stops(outs[i])) => outs[j] = [audio |-> "null", then |-> "ok"]}

\* AttemptLoop asking again right after the restart, within the attempt
RECURSIVE AttemptLoopResending(_, _, _, _, _)
AttemptLoopResending(attempt, st, outs, dir_name, chunk_idx) ==
    IF attempt >= max_retries \/ st.exc \/ st.broke THEN st
    ELSE LET o == outs[attempt + 1]
             st1 == [st EXCEPT !.audio_data = o.audio,
                               !.requests = Append(@, o.audio)]
         IN IF o.audio = "RATE_LIMIT"
            THEN AttemptLoopResending(attempt + 1,
                             [st1 EXCEPT !.exc = (o.then = "restart_raises"),
                                         !.requests = Append(@, o.audio)],
                             outs, dir_name, chunk_idx)
            ELSE IF o.audio = "bytes"
            THEN IF o.then = "ok"
                 THEN [st1 EXCEPT !.disk = WriteFile(@, ChunkFile(dir_name, chunk_idx), "full"),
                                  !.completed_chunks = Append(@, chunk_idx),
                                  !.broke = TRUE]
                 ELSE [st1 EXCEPT !.exc = TRUE]
            ELSE AttemptLoopResending(attempt + 1, st1, outs, dir_name, chunk_idx)

\* AttemptLoop appending the index before the file is written
RECURSIVE AttemptLoopAppendingFirst(_, _, _, _, _)
AttemptLoopAppendingFirst(attempt, st, outs, dir_name, chunk_idx) ==
    IF attempt >= max_retries \/ st.exc \/ st.broke THEN st
    ELSE LET o == outs[attempt + 1]
             st1 == [st EXCEPT !.audio_data = o.audio,
                               !.requests = Append(@, o.audio)]
             st2 == [st1 EXCEPT !.completed_chunks = Append(@, chunk_idx)]
         IN IF o.audio = "RATE_LIMIT"
            THEN AttemptLoopAppendingFirst(attempt + 1,
                             [st1 EXCEPT !.exc = (o.then = "restart_raises")],
                             outs, dir_name, chunk_idx)
            ELSE IF o.audio = "bytes"
            THEN IF o.then = "open_raises"
                 THEN [st2 EXCEPT !.exc = TRUE]
                 ELSE IF o.then = "write_raises"
                 THEN [st2 EXCEPT !.disk = WriteFile(@, ChunkFile(dir_name, chunk_idx), "empty"),
                                  !.exc = TRUE]
                 ELSE IF o.then = "write_short"
                 THEN [st2 EXCEPT !.disk = WriteFile(@, ChunkFile(dir_name, chunk_idx), "partial"),
                                  !.exc = TRUE]
                 ELSE [st2 EXCEPT !.disk = WriteFile(@, ChunkFile(dir_name, chunk_idx), "full"),
                                  !.broke = TRUE]
            ELSE AttemptLoopAppendingFirst(attempt + 1, st1, outs, dir_name, chunk_idx)

\* the state the loop works on: the worker's lists, audio_data, the disk,
\* whether an exception left the loop, whether the loop hit break, and the
\* request_audio calls made (requests)
RECURSIVE AttemptLoop(_, _, _, _, _)
AttemptLoop(attempt, st, outs, dir_name, chunk_idx) ==
    IF attempt >= max_retries \/ st.exc \/ st.broke THEN st
    ELSE LET o == outs[attempt + 1]
             st1 == [st EXCEPT !.audio_data = o.audio,
                               !.requests = Append(@, o.audio)]
         IN IF o.audio = "RATE_LIMIT"
            THEN \* restart(), then continue
                 AttemptLoop(attempt + 1,
                             [st1 EXCEPT !.exc = (o.then = "restart_raises")],
                             outs, dir_name, chunk_idx)
            ELSE IF o.audio = "bytes"
            THEN \* makedirs, open, write, completed_chunks.append, break
                 IF o.then = "open_raises"
                 THEN [st1 EXCEPT !.exc = TRUE]
                 ELSE IF o.then = "write_raises"
                 THEN \* open(file_path, "wb") has truncated the file
                      [st1 EXCEPT !.disk = WriteFile(@, ChunkFile(dir_name, chunk_idx), "empty"),
                                  !.exc = TRUE]
                 ELSE IF o.then = "write_short"
                 THEN [st1 EXCEPT !.disk = WriteFile(@, ChunkFile(dir_name, chunk_idx), "partial"),
                                  !.exc = TRUE]
                 ELSE [st1 EXCEPT !.disk = WriteFile(@, ChunkFile(dir_name, chunk_idx), "full"),
                                  !.completed_chunks = Append(@, chunk_idx),
                                  !.broke = TRUE]
            ELSE \* a failure: sleep, next attempt
                 AttemptLoop(attempt + 1, st1, outs, dir_name, chunk_idx)

\* MarkFailed with the append forgotten
MarkFailedDropped(st, chunk_idx) == st

\* "if not audio_data: failed_chunks.append(chunk_idx)": None and empty
\* bytes are falsy, "RATE_LIMIT" and audio bytes are not
MarkFailed(st, chunk_idx) ==
    IF ~st.exc /\ st.audio_data = "null"
    THEN [st EXCEPT !.failed_chunks = Append(@, chunk_idx)]
    ELSE st

\* one iteration of "for chunk_idx, chunk_text in self.assigned_chunks"
ProcessOneChunk(wk, d, outs, dir_name, chunk_idx) ==
    MarkFailed(
        AttemptLoop(0,
                    [completed_chunks |-> wk.completed_chunks,
                     failed_chunks    |-> wk.failed_chunks,
                     audio_data       |-> "null",
                     disk             |-> d,
                     exc              |-> FALSE,
                     broke            |-> FALSE,
                     requests         |-> <<>>],
                    outs, dir_name, chunk_idx),
        chunk_idx)


(***************************************************************************)
(* run_parallel_processing and worker_process_wrapper                      *)
(* (main_document_mode_parallel.py).                                       *)
(***************************************************************************)
\* all_chunks: every chunk of every chapter with its global index; a chunk
\* is [idx, chapter], chapter being the position of its Chapter object
RECURSIVE AllChunksFrom(_, _, _, _)
AllChunksFrom(chs, c, i, acc) ==
    IF c > Len(chs) THEN acc
    ELSE IF i > chs[c].chunks THEN AllChunksFrom(chs, c + 1, 1, acc)
    ELSE AllChunksFrom(chs, c, i + 1,
                       Append(acc, [idx |-> Len(acc) + 1, chapter |-> c]))

AllChunks(chs) == AllChunksFrom(chs, 1, 1, <<>>)

\* GroupFrom with a new chapter's list put in front of the others
RECURSIVE GroupFromPrepending(_, _, _, _)
GroupFromPrepending(chs, chapter_chunks, i, acc) ==
    IF i > Len(chapter_chunks) THEN acc
    ELSE LET ck  == chapter_chunks[i]
             key == <<chs[ck.chapter].number, chs[ck.chapter].dir_name>>
             at  == {k \in 1..Len(acc) : acc[k].key = key}
         IN IF at = {}
            THEN GroupFromPrepending(chs, chapter_chunks, i + 1,
                                     <<[key |-> key, chunks |-> <<ck.idx>>]>> \o acc)
            ELSE LET k == CHOOSE j \in at : TRUE
                 IN GroupFromPrepending(chs, chapter_chunks, i + 1,
                                        [acc EXCEPT ![k].chunks = Append(@, ck.idx)])

\* chunks_by_chapter: a dict keyed by (chapter.number, chapter.dir_name),
\* in insertion order, each value the (chunk_idx, chunk_text) list
RECURSIVE GroupFrom(_, _, _, _)
GroupFrom(chs, chapter_chunks, i, acc) ==
    IF i > Len(chapter_chunks) THEN acc
    ELSE LET ck  == chapter_chunks[i]
             key == <<chs[ck.chapter].number, chs[ck.chapter].dir_name>>
             at  == {k \in 1..Len(acc) : acc[k].key = key}
         IN IF at = {}
            THEN GroupFrom(chs, chapter_chunks, i + 1,
                           Append(acc, [key |-> key, chunks |-> <<ck.idx>>]))
            ELSE LET k == CHOOSE j \in at : TRUE
                 IN GroupFrom(chs, chapter_chunks, i + 1,
                              [acc EXCEPT ![k].chunks = Append(@, ck.idx)])

GroupByChapter(chs, chapter_chunks) == GroupFrom(chs, chapter_chunks, 1, <<>>)

NoReturn ==
    [kind |-> "none", status |-> "none", error |-> FALSE,
     has_results |-> FALSE, completed |-> <<>>, failed |-> <<>>]

\* WrapperResult without the except clause: the exception reaches gather
WrapperResultUncaught(wk, exc) ==
    IF exc
    THEN [kind |-> "exception", status |-> "none", error |-> FALSE,
          has_results |-> FALSE, completed |-> <<>>, failed |-> <<>>]
    ELSE [kind |-> "dict", status |-> "success", error |-> FALSE,
          has_results |-> wk.nresults > 0,
          completed |-> IF wk.nresults > 0 THEN wk.completed_chunks ELSE <<>>,
          failed    |-> IF wk.nresults > 0 THEN wk.failed_chunks ELSE <<>>]

\* what worker_process_wrapper hands to gather when its try block ended
\* with (exc) or without an exception: "except Exception" turns the first
\* into a failed record.  completed and failed are those of results[-1],
\* the lists of the worker itself.  "finally: await worker.cleanup()" runs
\* on both paths before the value reaches gather (Returned).
WrapperResult(wk, exc) ==
    IF exc
    THEN [kind |-> "dict", status |-> "failed", error |-> TRUE,
          has_results |-> FALSE, completed |-> <<>>, failed |-> <<>>]
    ELSE [kind |-> "dict", status |-> "success", error |-> FALSE,
          has_results |-> wk.nresults > 0,
          completed |-> IF wk.nresults > 0 THEN wk.completed_chunks ELSE <<>>,
          failed    |-> IF wk.nresults > 0 THEN wk.failed_chunks ELSE <<>>]

\* WorkerBrowser(worker_id): nothing assigned, nothing done
NewWorker ==
    [pc |-> "created", gi |-> 0, ci |-> 0,
     completed_chunks |-> <<>>, failed_chunks |-> <<>>,
     audio_data |-> "null", nresults |-> 0,
     ret |-> NoReturn, cleaned |-> FALSE]

\* the worker once its wrapper has left the try block with value ret
Returned(wk, ret) == [wk EXCEPT !.pc = "returned", !.ret = ret, !.cleaned = TRUE]

WorkerIds == DOMAIN workers
\* the coroutine made for worker w, if one was made
Launched(w) == \E k \in 1..Len(launch.tasks) : launch.tasks[k].worker_id = w
TaskOf(w) == launch.tasks[CHOOSE k \in 1..Len(launch.tasks) : launch.tasks[k].worker_id = w]
Groups(w) == GroupByChapter(chapters, TaskOf(w).worker_chunks)

\* how the attempts of one chunk went, for the history
LogOf(st) ==
    IF st.exc THEN "raised"
    ELSE IF st.broke THEN "saved"
    ELSE IF st.requests = <<"null", "null", "null">> THEN "null3"
    ELSE IF st.audio_data = "null" THEN "failed"
    ELSE "rate_limited"

\* config.get("stagger_interval_seconds", 10)
stagger_delay == 10

\* the strategies run_parallel_processing knows
Strategies == {"simultaneous", "staggered", "sequential"}

\* BatchWorkers starting one worker early
BatchWorkersFromStart(batch_start, batch_size, num_workers) ==
    LET batch_end == IF batch_start + batch_size < num_workers
                     THEN batch_start + batch_size ELSE num_workers
    IN [k \in 1..(batch_end - batch_start + 1) |-> batch_start + k - 1]

\* lines 321-325: the worker ids of the batch that follows batch_start
\* workers, range(batch_start + 1, batch_end + 1)
BatchWorkers(batch_start, batch_size, num_workers) ==
    LET batch_end == IF batch_start + batch_size < num_workers
                     THEN batch_start + batch_size ELSE num_workers
    IN [k \in 1..(batch_end - batch_start) |-> batch_start + k]

\* worker_process_wrapper(worker_id, ..., worker_chunks, start_delay): the
\* coroutines made for the worker ids ids
TasksFor(c, ids, strategy) ==
    [k \in 1..Len(ids) |->
        [worker_id     |-> ids[k],
         worker_chunks |-> get_worker_assignment(c, ids[k]),
         start_delay   |-> IF strategy = "staggered" THEN (ids[k] - 1) * stagger_delay ELSE 0]]

\* GatherDone of coroutines that are started and not awaited
GatherNotAwaited(tasks) ==
    TRUE

\* "await asyncio.gather(*tasks, return_exceptions=True)" returns: every
\* coroutine has returned, its finally clause (cleanup) included
GatherDone(tasks) ==
    \A k \in 1..Len(tasks) : workers[tasks[k].worker_id].pc = "returned"

\* lines 262-335: collect all_chunks, distribute them, stamp start_time,
\* and make the coroutines the strategy starts with: all of them, or the
\* first batch
RunStart ==
    /\ rpc = "init"
    /\ LET c1 == [distribute_chunks(coordinator, AllChunks(chapters))
                     EXCEPT !.start_time = TRUE]
           ids == IF launch.strategy = "sequential"
                  THEN BatchWorkers(0, launch.batch_size, c1.num_workers)
                  ELSE [k \in 1..c1.num_workers |-> k]
       IN /\ coordinator' = c1
          /\ launch' = [launch EXCEPT !.tasks = TasksFor(c1, ids, launch.strategy)]
    /\ rpc' = "gathering"
    /\ UNCHANGED <<chapters, disk, workers, merged, chunkLog, raised, subLog, waiting, coordVars, anVars, auxVars, serVars, sessVars>>

\* the wrapper up to its first chunk: initialize(), which may raise, and
\* the grouping of the assignment; a worker without chunks returns at once,
\* as does one whose initialize() raised
WorkerInitialize(w) ==
    /\ rpc = "gathering"
    /\ waiting = 0
    /\ Launched(w)
    /\ workers[w].pc = "created"
    /\ \E exc \in BOOLEAN :
         /\ raised' = [raised EXCEPT ![w] = exc]
         /\ workers' =
              [workers EXCEPT ![w] =
                 IF exc \/ Groups(w) = <<>>
                 THEN Returned(workers[w], WrapperResult(workers[w], exc))
                 ELSE [@ EXCEPT !.pc = "running", !.gi = 1, !.ci = 1]]
    /\ UNCHANGED <<chapters, disk, coordinator, rpc, merged, chunkLog, subLog, waiting, launch, coordVars, anVars, auxVars, serVars, sessVars>>

\* one chunk of process_assigned_chunks; after the last chunk of a chapter
\* group the result is appended to results and the next group assigned,
\* after the last group the wrapper returns its success record
ProcessChunk(w) ==
    /\ workers[w].pc = "running"
    /\ waiting = 0
    /\ \E outs \in AttemptSeqs :
         LET wk        == workers[w]
             grp       == Groups(w)[wk.gi]
             chunk_idx == grp.chunks[wk.ci]
             st        == ProcessOneChunk(wk, disk, outs, grp.key[2], chunk_idx)
             wk1       == [wk EXCEPT !.completed_chunks = st.completed_chunks,
                                     !.failed_chunks = st.failed_chunks,
                                     !.audio_data = st.audio_data]
             lastOfGroup == wk.ci = Len(grp.chunks)
             lastGroup   == wk.gi = Len(Groups(w))
             wk2       == IF ~lastOfGroup THEN [wk1 EXCEPT !.ci = @ + 1]
                          ELSE [wk1 EXCEPT !.nresults = @ + 1, !.gi = @ + 1, !.ci = 1]
         IN /\ disk' = st.disk
            /\ chunkLog' = [chunkLog EXCEPT ![chunk_idx] = LogOf(st)]
            /\ subLog' = [subLog EXCEPT ![w] = Append(@, chunk_idx)]
            /\ raised' = [raised EXCEPT ![w] = st.exc]
            /\ workers' =
                 [workers EXCEPT ![w] =
                    IF st.exc
                    THEN Returned(wk1, WrapperResult(wk1, TRUE))
                    ELSE IF lastOfGroup /\ lastGroup
                    THEN Returned(wk2, WrapperResult(wk2, FALSE))
                    ELSE wk2]
    /\ UNCHANGED <<chapters, coordinator, rpc, merged, waiting, launch, coordVars, anVars, auxVars, serVars, sessVars>>

\* request_audio of worker w finds a CAPTCHA on the page, or gets a 403,
\* and calls input() (main_playwright_persistent.py lines 282 and 368).
\* input() is a plain blocking call, not an await: the workers are tasks of
\* one asyncio.gather on one event loop, so until it returns the loop runs
\* no other task.
CaptchaWait(w) ==
    /\ workers[w].pc = "running"
    /\ waiting = 0
    /\ waiting' = w
    /\ UNCHANGED <<chapters, disk, coordinator, rpc, workers, merged, chunkLog, raised, subLog, launch,
                   coordVars, anVars, auxVars, serVars, sessVars>>

\* the operator presses Enter: input() returns.  Nothing else ends the wait.
OperatorResolves ==
    /\ waiting # 0
    /\ waiting' = 0
    /\ UNCHANGED <<chapters, disk, coordinator, rpc, workers, merged, chunkLog, raised, subLog, launch,
                   coordVars, anVars, auxVars, serVars, sessVars>>

\* lines 318-335, the sequential strategy: the gather of a batch has
\* returned and workers are left, so the loop makes the next batch
NextBatch ==
    /\ rpc = "gathering"
    /\ launch.strategy = "sequential"
    /\ Len(launch.tasks) < coordinator.num_workers
    /\ GatherDone(launch.tasks)
    /\ launch' = [launch EXCEPT !.tasks =
                      @ \o TasksFor(coordinator,
                                    BatchWorkers(Len(launch.tasks), launch.batch_size,
                                                 coordinator.num_workers),
                                    launch.strategy)]
    /\ UNCHANGED <<chapters, disk, coordinator, rpc, workers, merged, chunkLog, raised, subLog,
                   waiting, coordVars, anVars, auxVars, serVars, sessVars>>

\* MergeLoop passing over the failed records
RECURSIVE MergeLoopSkippingFailed(_, _, _)
MergeLoopSkippingFailed(results, i, acc) ==
    IF i > Len(results) THEN acc
    ELSE LET result == results[i]
         IN IF result.kind = "dict" /\ result.status = "success"
            THEN MergeLoopSkippingFailed(results, i + 1,
                    [coord     |-> mark_worker_completed(acc.coord, i),
                     completed |-> IF result.has_results
                                   THEN acc.completed \cup Range(result.completed)
                                   ELSE acc.completed,
                     failed    |-> IF result.has_results
                                   THEN acc.failed \cup Range(result.failed)
                                   ELSE acc.failed])
            ELSE MergeLoopSkippingFailed(results, i + 1, acc)

\* lines 343-363: the loop over the gathered results, in worker order
RECURSIVE MergeLoop(_, _, _)
MergeLoop(results, i, acc) ==
    IF i > Len(results) THEN acc
    ELSE LET result == results[i]
         IN IF result.kind = "dict" /\ result.status = "success"
            THEN MergeLoop(results, i + 1,
                    [coord     |-> mark_worker_completed(acc.coord, i),
                     completed |-> IF result.has_results
                                   THEN acc.completed \cup Range(result.completed)
                                   ELSE acc.completed,
                     failed    |-> IF result.has_results
                                   THEN acc.failed \cup Range(result.failed)
                                   ELSE acc.failed])
            ELSE IF result.kind = "dict" /\ result.status = "failed"
            THEN MergeLoop(results, i + 1,
                    [acc EXCEPT !.coord = mark_worker_failed(acc.coord, i)])
            ELSE MergeLoop(results, i + 1, acc)

\* lines 339-380, once gather has every wrapper's value
MergeResults ==
    /\ rpc = "gathering"
    /\ Len(launch.tasks) >= coordinator.num_workers
    /\ GatherDone(launch.tasks)
    /\ LET results == [k \in 1..Len(launch.tasks) |-> workers[launch.tasks[k].worker_id].ret]
           acc == MergeLoop(results, 1,
                            [coord |-> coordinator, completed |-> {}, failed |-> {}])
           c1 == [acc.coord EXCEPT !.overall_completed = Cardinality(acc.completed),
                                   !.overall_failed = Cardinality(acc.failed)]
           c2 == IF c1.start_time /\ ~c1.end_time THEN [c1 EXCEPT !.end_time = TRUE] ELSE c1
       IN /\ coordinator' = c2
          /\ merged' = [all_completed_chunks |-> acc.completed,
                        all_failed_chunks    |-> acc.failed,
                        returned |-> <<c2.overall_completed, c2.overall_failed>>]
    /\ rpc' = "done"
    /\ UNCHANGED <<chapters, disk, workers, chunkLog, raised, subLog, waiting, launch, coordVars, anVars, auxVars, serVars, sessVars>>

NoMerge == [all_completed_chunks |-> {}, all_failed_chunks |-> {}, returned |-> <<0, 0>>]

Init ==
    /\ chapters \in ChapterPlans
    /\ disk = EmptyDisk
    /\ \E n \in 1..MaxWorkers :
         /\ coordinator = CoordNew(TotalChunks(chapters), n)
         /\ workers = [w \in 1..n |-> NewWorker]
         /\ raised = [w \in 1..n |-> FALSE]
         /\ subLog = [w \in 1..n |-> <<>>]
    /\ waiting = 0
    /\ \E strategy \in Strategies : \E batch_size \in 1..MaxBatch :
         /\ strategy # "sequential" => batch_size = 1
         /\ launch = [strategy |-> strategy, batch_size |-> batch_size, tasks |-> <<>>]
    /\ rpc = "init"
    /\ merged = NoMerge
    /\ chunkLog = [g \in 1..TotalChunks(chapters) |-> "none"]
    /\ CoordIdle
    /\ SerialIdle
    /\ AnalysisIdle
    /\ AuxIdle
    /\ SessionIdle

Next ==
    \/ RunStart
    \/ \E w \in WorkerIds : WorkerInitialize(w)
    \/ \E w \in WorkerIds : ProcessChunk(w)
    \/ \E w \in WorkerIds : CaptchaWait(w)
    \/ OperatorResolves
    \/ NextBatch
    \/ MergeResults

Spec == Init /\ [][Next]_vars


(***************************************************************************)
(* Claims about the parallel run (Spec).                                   *)
(***************************************************************************)
\* the global chunk indices assigned to worker w
Assigned(w) ==
    {get_worker_assignment(coordinator, w)[k].idx :
        k \in 1..Len(get_worker_assignment(coordinator, w))}

\* the chapter (position) of global chunk g and its 1-based index in it
ChapterOf(g) == AllChunks(chapters)[g].chapter
LocalIdx(g) ==
    g - SeqSum([c \in 1..(ChapterOf(g) - 1) |-> chapters[c].chunks])

\* C1: a chunk is never skipped on a rate-limit, only retried: no worker
\* leaves a chunk (moving to the next one, or returning) while the chunk's
\* last outcome is RATE_LIMIT.
C1_RateLimitNeverSkips ==
    \A g \in DOMAIN chunkLog : chunkLog[g] # "rate_limited"

\* C2: a chunk whose three attempts all returned a non-rate-limit failure
\* is in failed exactly once and not in completed, and the chunks after it
\* in the assignment are still submitted: a worker that returned without an
\* exception has submitted every one of them.
C2_ExhaustedChunkFailsOnce ==
    \A w \in WorkerIds : \A g \in Assigned(w) :
        chunkLog[g] = "null3" =>
            /\ Count(workers[w].failed_chunks, g) = 1
            /\ g \notin Range(workers[w].completed_chunks)
            /\ (workers[w].pc = "returned" /\ ~raised[w]) =>
                  \A h \in Assigned(w) : h > g => chunkLog[h] # "none"

C2_Witness ==
    \E w \in WorkerIds : \E g \in Assigned(w) : \E h \in Assigned(w) :
        /\ chunkLog[g] = "null3"
        /\ h > g
        /\ chunkLog[h] = "saved"
        /\ workers[w].pc = "returned"

\* C4: when one worker fails entirely (raises before completing a chunk)
\* and the others succeed on all their chunks, the merged completed set is
\* the others' chunks, the failed worker's chunks are all in the merged
\* failed set, and the job is reported incomplete.
C4_FailedWorkerChunksRecorded ==
    \A f \in WorkerIds :
        ( /\ rpc = "done"
          /\ workers[f].ret.status = "failed"
          /\ workers[f].completed_chunks = <<>>
          /\ Assigned(f) # {}
          /\ WorkerIds \ {f} # {}
          /\ \A v \in WorkerIds \ {f} :
                /\ workers[v].ret.status = "success"
                /\ \A g \in Assigned(v) : chunkLog[g] = "saved" )
        => /\ merged.all_completed_chunks = UNION {Assigned(v) : v \in WorkerIds \ {f}}
           /\ Assigned(f) \subseteq merged.all_failed_chunks
           /\ merged.returned # <<coordinator.total_chunks, 0>>

\* C6: the persisted artifact is the checkpoint: every chunk whose audio a
\* worker has written is counted complete by analyze_progress over the
\* same directory and chapter plan.
C6_WrittenChunkCountsComplete ==
    \A g \in DOMAIN chunkLog :
        chunkLog[g] = "saved" =>
            LocalIdx(g) \notin AnalyzeChapter(disk, chapters[ChapterOf(g)])

ChunkItems == {[idx |-> i, chapter |-> 1] : i \in 1..MaxItem}
ChunkLists == UNION {[1..l -> ChunkItems] : l \in 0..MaxLen}

Distribute ==
    /\ coordinator' = distribute_chunks(coordinator, chunksIn)
    /\ UNCHANGED <<chapters, disk, parVars, coordVars, anVars, auxVars, serVars, sessVars>>

DistInit ==
    /\ chunksIn \in ChunkLists
    /\ \E n \in 1..MaxDistWorkers : coordinator = CoordNew(Len(chunksIn), n)
    /\ latest = <<>>
    /\ JobIdle
    /\ ParIdle
    /\ SerialIdle
    /\ AnalysisIdle
    /\ AuxIdle
    /\ SessionIdle

DistNext == Distribute

SpecDist == DistInit /\ [][DistNext]_vars

\* C3: round-robin distribution is a partition: worker k receives exactly
\* the chunks at positions k, k+N, k+2N, ... of the list, in ascending
\* order, so every position is handed to exactly one worker.
C3_RoundRobinPartition ==
    DOMAIN coordinator.chunk_assignments # {} =>
        LET N == coordinator.num_workers
            L == Len(chunksIn)
            a == coordinator.chunk_assignments
        IN /\ DOMAIN a = 1..N
           /\ \A k \in 1..N :
                /\ Len(a[k]) = Cardinality({p \in 1..L : (p - 1) % N = k - 1})
                /\ \A j \in 1..Len(a[k]) :
                      /\ k + (j - 1) * N \in 1..L
                      /\ a[k][j] = chunksIn[k + (j - 1) * N]
           /\ SeqSum([k \in 1..N |-> Len(a[k])]) = L

C3_Witness ==
    /\ DOMAIN coordinator.chunk_assignments # {}
    /\ coordinator.num_workers = 2
    /\ Len(chunksIn) = 3
    /\ chunksIn[1] # chunksIn[2] /\ chunksIn[2] # chunksIn[3]
    /\ Len(coordinator.chunk_assignments[1]) = 2
    /\ Len(coordinator.chunk_assignments[2]) = 1

(***************************************************************************)
(* SpecCoord: any sequence of update_worker_progress calls, for known and  *)
(* unknown worker ids, on a coordinator of any size.                       *)
(***************************************************************************)
ReportStatuses == {"working", "captcha", "completed"}

CoordUpdate ==
    \E w \in 0..(MaxCoordWorkers + 1) : \E completed \in 0..MaxCount :
    \E failed \in 0..MaxCount : \E status \in ReportStatuses :
        /\ coordinator' = update_worker_progress(coordinator, w, completed, failed, status)
        /\ latest' = IF w \in DOMAIN latest
                     THEN [latest EXCEPT ![w] = [completed |-> completed, failed |-> failed]]
                     ELSE latest
        /\ UNCHANGED <<chapters, disk, parVars, chunksIn, anVars, auxVars, serVars, sessVars>>

CoordInit ==
    /\ \E n \in 1..MaxCoordWorkers :
         /\ coordinator = CoordNew(n * MaxCount, n)
         /\ latest = [w \in 1..n |-> [completed |-> 0, failed |-> 0]]
    /\ chunksIn = <<>>
    /\ JobIdle
    /\ ParIdle
    /\ SerialIdle
    /\ AnalysisIdle
    /\ AuxIdle
    /\ SessionIdle

CoordNext == CoordUpdate

SpecCoord == CoordInit /\ [][CoordNext]_vars

\* C10: after any sequence of update_worker_progress calls, overall_completed
\* is the sum over the workers of the completed count each reported last,
\* and overall_failed the sum of the failed counts each reported last.
C10_OverallIsSumOfLatest ==
    latest # <<>> =>
        /\ coordinator.overall_completed =
              SumOver([w \in DOMAIN latest |-> latest[w].completed], DOMAIN latest)
        /\ coordinator.overall_failed =
              SumOver([w \in DOMAIN latest |-> latest[w].failed], DOMAIN latest)

C10_Witness ==
    /\ Len(latest) = 2
    /\ latest[1].completed = 1 /\ latest[2].completed = 1
    /\ latest[1].failed = 0 /\ latest[2].failed = 1
    /\ coordinator.worker_progress[1].status = "completed"
    /\ coordinator.overall_completed = 2


(***************************************************************************)
(* SpecSerial: process_chapters_to_speech (main_document_mode.py), run any *)
(* number of times over the book's output directory.  A run ends by        *)
(* returning, by an exception leaving it, or by the user's Ctrl+C.         *)
(***************************************************************************)
M4BFile == [dir |-> <<>>, kind |-> "m4b", prefix |-> <<>>, idx |-> 0]

\* lines 1657-1668: the locals of a run entering the chapter loop
SerialBegin(resume, missing) ==
    [SerIdle EXCEPT !.pc = "running", !.resume_mode = resume,
                    !.missing_chunks = missing, !.ci = 1]

\* lines 1743-1818: the retry loop of one chunk of chapter ch
RECURSIVE SerialAttemptLoop(_, _, _, _, _)
SerialAttemptLoop(attempt, st, outs, ch, chunk_idx) ==
    IF attempt >= max_retries \/ st.exc \/ st.broke THEN st
    ELSE LET o == outs[attempt + 1]
             file_path == ChunkFile(ch.dir_name, chunk_idx)
             st1 == [st EXCEPT !.audio_data = o.audio]
         IN IF o.audio = "RATE_LIMIT"
            THEN \* the menu: restart() or wait, then continue
                 SerialAttemptLoop(attempt + 1,
                                   [st1 EXCEPT !.exc = (o.then = "restart_raises")],
                                   outs, ch, chunk_idx)
            ELSE IF o.audio = "bytes"
            THEN IF o.then = "open_raises"
                 THEN [st1 EXCEPT !.exc = TRUE]
                 ELSE IF o.then = "write_raises"
                 THEN [st1 EXCEPT !.disk = WriteFile(@, file_path, "empty"),
                                  !.exc = TRUE]
                 ELSE IF o.then = "write_short"
                 THEN [st1 EXCEPT !.disk = WriteFile(@, file_path, "partial"),
                                  !.exc = TRUE]
                 ELSE [st1 EXCEPT !.disk = WriteFile(@, file_path, "full"),
                                  !.success_count = @ + 1,
                                  !.chapter_success_count = @ + 1,
                                  !.chapter_chunk_files = Append(@, file_path),
                                  !.broke = TRUE]
            ELSE SerialAttemptLoop(attempt + 1, st1, outs, ch, chunk_idx)

\* lines 1820-1822: "if not audio_data: failed_chunks.append(...)"
SerialMarkFailed(st, ch, chunk_idx) ==
    IF ~st.exc /\ st.audio_data = "null"
    THEN [st EXCEPT !.failed_chunks = Append(@, <<ch.number, chunk_idx>>)]
    ELSE st

\* concatenate_chapter_mp3s: how ffmpeg and the calls after it went decides
\* what is on the disk.  "ok": returncode 0, the size test passes, every
\* os.remove succeeds.  "mismatch": returncode 0, the size test fails.
\* "error": ffmpeg fails, times out or cannot be started, no output.
\* "error_output": the same with an output file partly written.
\* "remove_raises": as "ok" up to the loop of lines 478-480, where the
\* first os.remove succeeds and the second raises; "except Exception"
\* (lines 499-503) returns None
ConcatOutcomes == {"ok", "mismatch", "error", "error_output", "remove_raises"}

\* what concatenate_chapter_mp3s returns: <<output_path>>, or <<>> for None
ConcatReturn(chapter_name, chunk_files, outcome) ==
    IF chunk_files # <<>> /\ outcome = "ok" THEN <<ConcatFile(chapter_name)>> ELSE <<>>

concatenate_chapter_mp3s(d, chapter_name, chunk_files, outcome) ==
    LET output_path == ConcatFile(chapter_name)
        RECURSIVE RemoveAll(_, _)
        RemoveAll(dd, i) ==
            IF i > Len(chunk_files) THEN dd
            ELSE RemoveAll(IF Exists(dd, chunk_files[i])
                           THEN RemoveFile(dd, chunk_files[i]) ELSE dd, i + 1)
    IN IF chunk_files = <<>> THEN d
       ELSE IF outcome = "ok"
       THEN RemoveAll(WriteFile(d, output_path, "full"), 1)
       ELSE IF outcome = "mismatch"
       THEN IF Exists(d, output_path) THEN RemoveFile(d, output_path) ELSE d
       ELSE IF outcome = "error_output"
       THEN WriteFile(d, output_path, "partial")
       ELSE IF outcome = "remove_raises"
       THEN LET d1 == WriteFile(d, output_path, "full")
            IN IF Exists(d1, chunk_files[1]) /\ Len(chunk_files) > 1
               THEN RemoveFile(d1, chunk_files[1]) ELSE d1
       ELSE d

\* M4BDecision with the count of successes left out
M4BDecisionFailedOnly(success_count, total_chunks, failed_chunks) ==
    failed_chunks = <<>>

\* line 1852: "if success_count == total_chunks and not failed_chunks"
M4BDecision(success_count, total_chunks, failed_chunks) ==
    success_count = total_chunks /\ failed_chunks = <<>>

\* lines 1578-1655: existing directory, progress analysis, resume prompt
SerialStart ==
    /\ ser.pc = "idle"
    /\ \E choice \in {"1", "2"} :
         LET missing == AnalyzeMissing(disk, chapters)
         IN IF hasDir /\ missing = {}
            THEN /\ ser' = IF Exists(disk, M4BFile) THEN ser
                           ELSE [SerIdle EXCEPT !.pc = "m4b"]
                 /\ UNCHANGED <<disk, hasDir>>
            ELSE IF hasDir /\ choice = "1"
            THEN /\ ser' = SerialBegin(TRUE, missing)
                 /\ UNCHANGED <<disk, hasDir>>
            ELSE /\ ser' = SerialBegin(FALSE, {})
                 /\ disk' = EmptyDisk
                 /\ hasDir' = TRUE
    /\ submitted' = {}
    /\ atStart' = disk'
    \* the history of the calls of concatenate_chapter_mp3s is that of one run
    /\ fcall' = [fn |-> "none"]
    /\ UNCHANGED <<chapters, coordinator, parVars, coordVars, anVars, safety, marked, sessVars>>

\* lines 1670-1700: the head of the chapter loop
SerialChapterHead ==
    /\ ser.pc = "running" /\ ser.ci <= Len(chapters) /\ ser.ki = 0
    /\ LET chapter == chapters[ser.ci]
           concatenated_file == ConcatFile(chapter.dir_name)
       IN ser' =
            IF chapter.chunks = 0 THEN [ser EXCEPT !.ci = @ + 1]
            ELSE IF /\ ser.resume_mode
                    /\ Exists(disk, concatenated_file)
                    /\ GetSize(disk, concatenated_file) > 0
            THEN [ser EXCEPT !.success_count = @ + chapter.chunks, !.ci = @ + 1]
            ELSE [ser EXCEPT !.ki = 1, !.chapter_success_count = 0,
                             !.chapter_chunk_files = <<>>]
    /\ UNCHANGED <<chapters, disk, coordinator, parVars, coordVars, anVars, auxVars, sessVars,
                   hasDir, submitted, atStart>>

\* lines 1706-1722: a chunk the resumed run takes as already done
SerialSkipChunk ==
    /\ ser.pc = "running" /\ ser.ci <= Len(chapters)
    /\ ser.ki \in 1..chapters[ser.ci].chunks
    /\ ser.resume_mode
    /\ <<chapters[ser.ci].number, ser.ki>> \notin ser.missing_chunks
    /\ LET file_path == ChunkFile(chapters[ser.ci].dir_name, ser.ki)
       IN ser' = IF Exists(disk, file_path)
                 THEN [ser EXCEPT !.chapter_chunk_files = Append(@, file_path),
                                  !.chapter_success_count = @ + 1,
                                  !.success_count = @ + 1,
                                  !.ki = @ + 1]
                 ELSE [ser EXCEPT !.ki = @ + 1]
    /\ UNCHANGED <<chapters, disk, coordinator, parVars, coordVars, anVars, auxVars, sessVars,
                   hasDir, submitted, atStart>>

\* lines 1724-1822: a chunk that is requested; an exception ends the run
SerialRequestChunk ==
    /\ ser.pc = "running" /\ ser.ci <= Len(chapters)
    /\ ser.ki \in 1..chapters[ser.ci].chunks
    /\ ~(ser.resume_mode /\ <<chapters[ser.ci].number, ser.ki>> \notin ser.missing_chunks)
    /\ \E outs \in AttemptSeqs :
         LET chapter == chapters[ser.ci]
             st == SerialMarkFailed(
                     SerialAttemptLoop(0,
                        [success_count |-> ser.success_count,
                         chapter_success_count |-> ser.chapter_success_count,
                         chapter_chunk_files |-> ser.chapter_chunk_files,
                         failed_chunks |-> ser.failed_chunks,
                         audio_data |-> "null", disk |-> disk,
                         exc |-> FALSE, broke |-> FALSE],
                        outs, chapter, ser.ki),
                     chapter, ser.ki)
         IN /\ disk' = st.disk
            /\ submitted' = IF st.exc THEN {} ELSE submitted \cup {<<ser.ci, ser.ki>>}
            /\ atStart' = IF st.exc THEN EmptyDisk ELSE atStart
            /\ ser' = IF st.exc THEN SerIdle
                      ELSE [ser EXCEPT !.success_count = st.success_count,
                                       !.chapter_success_count = st.chapter_success_count,
                                       !.chapter_chunk_files = st.chapter_chunk_files,
                                       !.failed_chunks = st.failed_chunks,
                                       !.ki = @ + 1]
    /\ UNCHANGED <<chapters, coordinator, parVars, coordVars, anVars, auxVars, sessVars, hasDir>>

\* lines 1824-1835: after the last chunk of a chapter
SerialChapterEnd ==
    /\ ser.pc = "running" /\ ser.ci <= Len(chapters)
    /\ ser.ki = chapters[ser.ci].chunks + 1
    /\ LET chapter == chapters[ser.ci]
       IN IF ser.chapter_success_count = chapter.chunks /\ chapter.chunks > 1
          THEN \E outcome \in ConcatOutcomes :
                  /\ disk' = concatenate_chapter_mp3s(disk, chapter.dir_name,
                                                      ser.chapter_chunk_files, outcome)
                  \* history: the call, the disk before and after it, its value
                  /\ fcall' = [fn |-> "concatenate_chapter_mp3s",
                               chapter_name |-> chapter.dir_name,
                               chunk_files |-> ser.chapter_chunk_files,
                               before |-> disk, after |-> disk',
                               ret |-> ConcatReturn(chapter.dir_name,
                                                    ser.chapter_chunk_files, outcome)]
          ELSE disk' = disk /\ fcall' = fcall
    /\ ser' = [ser EXCEPT !.ci = @ + 1, !.ki = 0]
    /\ UNCHANGED <<chapters, coordinator, parVars, coordVars, anVars, safety, marked, sessVars,
                   hasDir, submitted, atStart>>

\* lines 1837-1873: the summary and the M4B decision
SerialFinish ==
    /\ ser.pc = "running" /\ ser.ci > Len(chapters)
    /\ ser' = IF M4BDecision(ser.success_count, TotalChunks(chapters), ser.failed_chunks)
              THEN [ser EXCEPT !.pc = "m4b"]
              ELSE SerIdle
    /\ submitted' = {}
    /\ atStart' = EmptyDisk
    /\ UNCHANGED <<chapters, disk, coordinator, parVars, coordVars, anVars, auxVars, sessVars, hasDir>>

\* create_m4b_audiobook, started at line 1616 or 1857: a file or None
SerialM4B ==
    /\ ser.pc = "m4b"
    /\ \E made \in BOOLEAN :
         disk' = IF made THEN WriteFile(disk, M4BFile, "full") ELSE disk
    /\ ser' = SerIdle
    /\ submitted' = {}
    /\ atStart' = EmptyDisk
    /\ UNCHANGED <<chapters, coordinator, parVars, coordVars, anVars, auxVars, sessVars, hasDir>>

\* Ctrl+C while the chapter loop runs
SerialAbort ==
    /\ ser.pc = "running"
    /\ ser' = SerIdle
    /\ submitted' = {}
    /\ atStart' = EmptyDisk
    /\ UNCHANGED <<chapters, disk, coordinator, parVars, coordVars, anVars, auxVars, sessVars, hasDir>>

SerialInit ==
    /\ chapters \in ChapterPlans
    /\ disk = EmptyDisk
    /\ coordinator = CoordNew(0, 1)
    /\ ParIdle
    /\ CoordIdle
    /\ SerialIdle
    /\ AnalysisIdle
    /\ AuxIdle
    /\ SessionIdle

SerialNext ==
    \/ SerialStart
    \/ SerialChapterHead
    \/ SerialSkipChunk
    \/ SerialRequestChunk
    \/ SerialChapterEnd
    \/ SerialFinish
    \/ SerialM4B
    \/ SerialAbort

SpecSerial == SerialInit /\ [][SerialNext]_vars

\* chunk i of chapter ch has a non-empty artifact in directory d: its own
\* chunk file, or the concatenated file of its chapter
HasArtifact(d, ch, i) ==
    \/ /\ Exists(d, ChunkFile(ch.dir_name, i))
       /\ GetSize(d, ChunkFile(ch.dir_name, i)) > 0
    \/ /\ Exists(d, ConcatFile(ch.dir_name))
       /\ GetSize(d, ConcatFile(ch.dir_name)) > 0

ChunkPositions == {<<c, i>> \in (1..Len(chapters)) \X (1..MaxChunks) : i <= chapters[c].chunks}

\* C5: a resumed run submits exactly the chunks that had no non-empty
\* artifact in the directory when it started: once its chapter loop has
\* ended, the chunks it called request_audio for are those and no others.
C5_ResumeSubmitsExactlyMissing ==
    (ser.pc = "running" /\ ser.resume_mode /\ ser.ci > Len(chapters)) =>
        submitted = {p \in ChunkPositions : ~HasArtifact(atStart, chapters[p[1]], p[2])}

\* C9: M4B post-processing is started only when every chunk of the job has
\* an artifact in the directory and the failed list of the run is empty.
C9_M4BOnlyWhenComplete ==
    ser.pc = "m4b" =>
        /\ \A p \in ChunkPositions : HasArtifact(disk, chapters[p[1]], p[2])
        /\ ser.failed_chunks = <<>>

C9_Witness ==
    /\ ser.pc = "m4b"
    /\ ser.resume_mode
    /\ ser.missing_chunks # {}
    /\ ser.success_count = TotalChunks(chapters)


(***************************************************************************)
(* SpecSession: the requests of one worker session                         *)
(* (main_playwright_persistent.py, worker_browser.py).  The page and the   *)
(* server are the environment: whether the page shows a CAPTCHA, what the  *)
(* fetch returns and how long it took.  Times are in milliseconds, and     *)
(* quotients are rounded down.                                             *)
(***************************************************************************)
\* "Independent CAPTCHA counter (55-request limit per worker)"
CaptchaBudget == 55
health_window_size == 20
response_time_window == 10
base_delay == 2500
max_delay == 8000

\* the response times of the model: a quick answer and a slow one
ResponseTimes == {1000, 4000}

\* __init__ followed by WorkerBrowser.initialize: browser is the browser
\* object the session holds, launched the browsers that are running;
\* baseline_response_time is <<>> for None and, for an average, the
\* fraction <<sum, count>>
NewSession ==
    [captcha_solved |-> TRUE, requests_since_captcha |-> 0,
     request_count |-> 0, success_count |-> 0, recent_results |-> <<>>,
     response_times |-> <<>>, baseline_response_time |-> <<>>,
     current_delay |-> base_delay,
     browser |-> 1, launched |-> {1}]

update_health(s, success) ==
    LET appended == Append(s.recent_results, success)
    IN [s EXCEPT !.recent_results =
                     IF Len(appended) > health_window_size THEN Tail(appended) ELSE appended,
                 !.request_count = @ + 1,
                 !.success_count = IF success THEN @ + 1 ELSE @]

\* get_health_score as the fraction <<successes, results>>
get_health_score(s) ==
    IF s.recent_results = <<>> THEN <<1, 1>>
    ELSE <<Count(s.recent_results, TRUE), Len(s.recent_results)>>

update_response_time(s, response_time) ==
    LET appended == Append(s.response_times, response_time)
        times == IF Len(appended) > response_time_window THEN Tail(appended) ELSE appended
    IN [s EXCEPT !.response_times = times,
                 !.baseline_response_time =
                     IF Len(times) >= 3 THEN <<SeqSum(times), Len(times)>> ELSE @]

\* calculate_adaptive_delay without the cap
calculate_adaptive_delayUncapped(s) ==
    LET health == get_health_score(s)
        health_penalty ==
            IF 10 * health[1] < 9 * health[2]
            THEN (1000 * (9 * health[2] - 10 * health[1])) \div health[2]
            ELSE 0
        n == Len(s.response_times)
        last3 == SubSeq(s.response_times, IF n > 3 THEN n - 2 ELSE 1, n)
        slow == /\ s.baseline_response_time # <<>>
                /\ s.baseline_response_time[1] # 0
                /\ n > 0
                /\ 2 * SeqSum(last3) * s.baseline_response_time[2]
                      > 3 * s.baseline_response_time[1] * Len(last3)
    IN base_delay + health_penalty + (IF slow THEN 2000 ELSE 0)

\* main_playwright_persistent.py lines 176-195, in milliseconds
calculate_adaptive_delay(s) ==
    LET health == get_health_score(s)
        \* health < 0.90: health_penalty = (0.90 - health) * 10 seconds
        health_penalty ==
            IF 10 * health[1] < 9 * health[2]
            THEN (1000 * (9 * health[2] - 10 * health[1])) \div health[2]
            ELSE 0
        n == Len(s.response_times)
        last3 == SubSeq(s.response_times, IF n > 3 THEN n - 2 ELSE 1, n)
        \* recent_avg > baseline_response_time * 1.5, both sides as fractions
        slow == /\ s.baseline_response_time # <<>>
                /\ s.baseline_response_time[1] # 0
                /\ n > 0
                /\ 2 * SeqSum(last3) * s.baseline_response_time[2]
                      > 3 * s.baseline_response_time[1] * Len(last3)
        delay == base_delay + health_penalty + (IF slow THEN 2000 ELSE 0)
    IN IF delay < max_delay THEN delay ELSE max_delay

\* wait_if_needed: the delay is recomputed, then slept
wait_if_needed(s) == [s EXCEPT !.current_delay = calculate_adaptive_delay(s)]

\* cleanup(): "if self.browser: await self.browser.close()"
cleanup(s) == [s EXCEPT !.launched = @ \ {s.browser}]

\* WorkerBrowser.initialize: a new browser is launched and kept in
\* self.browser; lines 162-163 set captcha_solved and requests_since_captcha
initialize(s) ==
    LET b == CHOOSE x \in {1, 2} : x # s.browser
    IN [s EXCEPT !.browser = b, !.launched = @ \cup {b},
                 !.captcha_solved = TRUE, !.requests_since_captcha = 0]

\* restart(), lines 420-426: "Reset health metrics"
ResetHealth(s) ==
    [s EXCEPT !.request_count = 0, !.success_count = 0, !.recent_results = <<>>,
              !.response_times = <<>>, !.baseline_response_time = <<>>,
              !.current_delay = base_delay]

\* restart() with the new session started before the old one is closed
restartInitializeFirst(s) == ResetHealth(cleanup(initialize(s)))

\* restart(): cleanup(), initialize(), health metrics reset
restart(s) == ResetHealth(initialize(cleanup(s)))

\* how a fetch can end ("exception": page.evaluate raised)
FetchResults == {"success", "429", "403", "other", "exception"}

\* what one pass through request_audio meets: check_for_captcha(), the
\* result of the fetch and the time the fetch took.
\* A pass that finds a CAPTCHA on the page does not fetch, and
\* a fetch that raised has no response time; what a pass never looks at is
\* fixed, to keep each case listed once.
Envs ==
    {e \in [captcha : BOOLEAN, result : FetchResults, rt : ResponseTimes] :
        /\ e.captcha => e.result = "success"
        /\ (e.captcha \/ e.result = "exception") => e.rt = 1000}
CalmEnv == [captcha |-> FALSE, result |-> "success", rt |-> 1000]

\* what the passes of one call meet; the second pass is made only after a
\* CAPTCHA on the page or a 403
EnvSeqs ==
    {envs \in [1..2 -> Envs] :
        ~(envs[1].captcha \/ envs[1].result = "403") => envs[2] = CalmEnv}

\* display_captcha_notification() and input(): the pause for the user
CaptchaPause(acc) ==
    [acc EXCEPT !.streak = 0, !.paused = TRUE, !.trace = Append(@, "pause")]

\* OnStatus with 429 handled like 403
OnStatusRetrying429(status, retry_on_captcha) ==
    IF status \in {"429", "403"} /\ retry_on_captcha THEN "retry"
    ELSE IF status = "429" THEN "RATE_LIMIT"
    ELSE "null"

\* OnStatus with the retry after a 403 left out
OnStatusNoRetry(status, retry_on_captcha) ==
    IF status = "429" THEN "RATE_LIMIT" ELSE "null"

\* lines 353-378: what a failed fetch leads to: the "RATE_LIMIT" marker,
\* the pause and the retry, or None
OnStatus(status, retry_on_captcha) ==
    IF status = "429" THEN "RATE_LIMIT"
    ELSE IF status = "403" /\ retry_on_captcha THEN "retry"
    ELSE "null"

\* request_audio; envs[k] is what the k-th pass meets, the second pass
\* being the retry with retry_on_captcha=False.  trace lists what the call
\* did: "captcha" (the page check found one), "pause", and the result of
\* each fetch.
RECURSIVE request_audio(_, _, _, _)
request_audio(acc0, envs, k, retry_on_captcha) ==
    LET e == envs[k]
        acc == [acc0 EXCEPT !.session = wait_if_needed(@)]
    IN IF e.captcha
       THEN LET seen == [acc EXCEPT !.trace = Append(@, "captcha")]
            IN IF retry_on_captcha
               THEN request_audio(CaptchaPause(seen), envs, k + 1, FALSE)
               ELSE [seen EXCEPT !.ret = "null"]
       ELSE IF e.result = "exception"
       THEN [acc EXCEPT !.session = update_health(@, FALSE), !.streak = 0,
                        !.trace = Append(@, "exception"), !.ret = "null"]
       ELSE LET sent == [acc EXCEPT !.sentAt = acc.streak,
                                    !.trace = Append(@, e.result),
                                    !.session = update_response_time(@, e.rt)]
            IN IF e.result = "success"
               THEN [sent EXCEPT !.session = update_health(@, TRUE),
                                 !.streak = @ + 1, !.ret = "bytes"]
               ELSE LET failed == [sent EXCEPT !.session = update_health(@, FALSE),
                                               !.streak = 0]
                        todo == OnStatus(e.result, retry_on_captcha)
                    IN IF todo = "retry"
                       THEN request_audio(CaptchaPause(failed), envs, k + 1, FALSE)
                       ELSE [failed EXCEPT !.ret = todo]

NoCall == [op |-> "none"]

SessRequest ==
    /\ session.request_count < MaxRequests
    /\ \E envs \in EnvSeqs :
         /\ session.request_count >= MaxTrouble => envs = <<CalmEnv, CalmEnv>>
         /\ LET acc == request_audio([session |-> session, streak |-> streak,
                                      sentAt |-> sentAt, paused |-> FALSE,
                                      trace |-> <<>>, ret |-> "null"],
                                     envs, 1, TRUE)
            IN /\ session' = acc.session
               /\ streak' = acc.streak
               /\ sentAt' = acc.sentAt
               /\ paused' = acc.paused
               /\ lastCall' = [op |-> "request", trace |-> acc.trace, ret |-> acc.ret,
                               before |-> session]
    /\ UNCHANGED <<chapters, disk, coordinator, parVars, coordVars, anVars, auxVars, serVars>>

SessRestart ==
    /\ session' = restart(session)
    /\ streak' = 0
    /\ sentAt' = 0
    /\ paused' = FALSE
    /\ lastCall' = [op |-> "restart", before |-> session]
    /\ UNCHANGED <<chapters, disk, coordinator, parVars, coordVars, anVars, auxVars, serVars>>

SessionInit ==
    /\ session = NewSession
    /\ streak = 0
    /\ sentAt = 0
    /\ paused = FALSE
    /\ lastCall = NoCall
    /\ coordinator = CoordNew(0, 1)
    /\ JobIdle
    /\ ParIdle
    /\ CoordIdle
    /\ SerialIdle
    /\ AnalysisIdle
    /\ AuxIdle

SessionNext ==
    \/ SessRequest
    \/ SessRestart

SpecSession == SessionInit /\ [][SessionNext]_vars

\* C7: the per-worker CAPTCHA budget is 55 requests: after 55 successful
\* requests in a row the pause comes before a 56th request is sent, so no
\* request is sent with 55 successes behind it; and requests_since_captcha
\* is 0 once a request_audio call has paused.
C7_PauseBeforeRequest56 ==
    /\ sentAt < CaptchaBudget
    /\ paused => session.requests_since_captcha = 0


(***************************************************************************)
(* Claims about the coordinator's view of a parallel run (Spec).           *)
(***************************************************************************)
\* C11: at every point of a parallel run the coordinator's progress state
\* is the true state: each worker's WorkerProgress counts are the numbers
\* of chunks the worker has completed and failed so far, and
\* overall_completed and overall_failed are their sums.
C11_ProgressReflectsWorkers ==
    rpc \in {"gathering", "done"} =>
        /\ \A w \in WorkerIds :
              /\ coordinator.worker_progress[w].completed_chunks =
                    Len(workers[w].completed_chunks)
              /\ coordinator.worker_progress[w].failed_chunks =
                    Len(workers[w].failed_chunks)
        /\ coordinator.overall_completed =
              SeqSum([w \in WorkerIds |-> Len(workers[w].completed_chunks)])
        /\ coordinator.overall_failed =
              SeqSum([w \in WorkerIds |-> Len(workers[w].failed_chunks)])

\* C12: no failed chunk is dropped from the final report: once the run is
\* done, get_all_failed_chunks returns exactly the indices of the assigned
\* chunks that failed, over all workers.
C12_FailedChunksEnumerated ==
    rpc = "done" =>
        Range(get_all_failed_chunks(coordinator)) =
            UNION {Range(workers[w].failed_chunks) : w \in WorkerIds}


(***************************************************************************)
(* SpecAnalyze: analyze_progress as the code runs it, a loop over the      *)
(* chapters that carries completed_chunks and missing_chunks and looks at  *)
(* the directory through os.path.exists and os.path.getsize.  The          *)
(* directory is threaded through the loop, so that what a call leaves on   *)
(* disk is part of its result.                                             *)
(***************************************************************************)
\* os.path.exists(chapter_dir): the directory holds a file.  (A directory
\* without files sends the loop to the per-chunk branch, which then finds
\* every chunk file absent and appends the same entries.)
DirExists(d, dir_name) == \E p \in DOMAIN d : p.dir = dir_name

\* for chunk_idx in range(from, len(chapter.chunks) + 1): append (number,
\* chunk_idx) to missing_chunks
RECURSIVE AppendAllMissing(_, _, _)
AppendAllMissing(acc, ch, chunk_idx) ==
    IF chunk_idx > ch.chunks THEN acc
    ELSE AppendAllMissing(
            [acc EXCEPT !.missing_chunks = Append(acc.missing_chunks, <<ch.number, chunk_idx>>)],
            ch, chunk_idx + 1)

\* the loop over the individual chunk files of a chapter, deleting
\* zero-length files as it meets them
RECURSIVE AnalyzeChunksCleaning(_, _, _)
AnalyzeChunksCleaning(acc, ch, chunk_idx) ==
    IF chunk_idx > ch.chunks THEN acc
    ELSE LET chunk_file == ChunkFile(ch.dir_name, chunk_idx)
         IN IF Exists(acc.disk, chunk_file) /\ GetSize(acc.disk, chunk_file) > 0
            THEN AnalyzeChunksCleaning(
                    [acc EXCEPT !.completed_chunks = acc.completed_chunks + 1],
                    ch, chunk_idx + 1)
            ELSE AnalyzeChunksCleaning(
                    [acc EXCEPT !.missing_chunks = Append(acc.missing_chunks, <<ch.number, chunk_idx>>),
                                !.disk = IF Exists(acc.disk, chunk_file)
                                         THEN RemoveFile(acc.disk, chunk_file)
                                         ELSE acc.disk],
                    ch, chunk_idx + 1)

\* the loop over the individual chunk files that does not ask for the size
RECURSIVE AnalyzeChunksAnySize(_, _, _)
AnalyzeChunksAnySize(acc, ch, chunk_idx) ==
    IF chunk_idx > ch.chunks THEN acc
    ELSE LET chunk_file == ChunkFile(ch.dir_name, chunk_idx)
         IN IF Exists(acc.disk, chunk_file)
            THEN AnalyzeChunksAnySize(
                    [acc EXCEPT !.completed_chunks = acc.completed_chunks + 1],
                    ch, chunk_idx + 1)
            ELSE AnalyzeChunksAnySize(
                    [acc EXCEPT !.missing_chunks = Append(acc.missing_chunks, <<ch.number, chunk_idx>>)],
                    ch, chunk_idx + 1)

\* the loop over the individual chunk files of a chapter
RECURSIVE AnalyzeChunks(_, _, _)
AnalyzeChunks(acc, ch, chunk_idx) ==
    IF chunk_idx > ch.chunks THEN acc
    ELSE LET chunk_file == ChunkFile(ch.dir_name, chunk_idx)
         IN IF Exists(acc.disk, chunk_file) /\ GetSize(acc.disk, chunk_file) > 0
            THEN AnalyzeChunks(
                    [acc EXCEPT !.completed_chunks = acc.completed_chunks + 1],
                    ch, chunk_idx + 1)
            ELSE AnalyzeChunks(
                    [acc EXCEPT !.missing_chunks = Append(acc.missing_chunks, <<ch.number, chunk_idx>>)],
                    ch, chunk_idx + 1)

\* one pass of "for chapter in chapters"
AnalyzeStep(acc, ch) ==
    LET concatenated_file == ConcatFile(ch.dir_name)
    IN IF ~DirExists(acc.disk, ch.dir_name)
       THEN AppendAllMissing(acc, ch, 1)
       ELSE IF Exists(acc.disk, concatenated_file) /\ GetSize(acc.disk, concatenated_file) > 0
            THEN [acc EXCEPT !.completed_chunks = acc.completed_chunks + ch.chunks]
            ELSE AnalyzeChunks(acc, ch, 1)

\* the state of the loop after the first c chapters
RECURSIVE AnalyzePrefix(_, _, _)
AnalyzePrefix(d, chs, c) ==
    IF c = 0
    THEN [completed_chunks |-> 0, total_chunks |-> TotalChunks(chs),
          missing_chunks |-> <<>>, disk |-> d]
    ELSE AnalyzeStep(AnalyzePrefix(d, chs, c - 1), chs[c])

\* analyze_progress(base_directory, chapters): the returned triple and the
\* directory the call leaves behind
analyze_progress(d, chs) == AnalyzePrefix(d, chs, Len(chs))

\* what a file can hold
Contents == {"empty", "partial", "full"}

\* the artifact paths of a chapter plan
AllPaths(chs) ==
    UNION {{ChunkFile(chs[c].dir_name, i) : i \in 1..chs[c].chunks}
           \cup {ConcatFile(chs[c].dir_name)} : c \in 1..Len(chs)}

\* the directories a run can find: any of the artifacts, in any condition
Disks(chs) == UNION {[S -> Contents] : S \in SUBSET AllPaths(chs)}

\* a call of analyze_progress
AnalyzeCall ==
    /\ analysis.calls < 2
    /\ LET r == analyze_progress(disk, chapters)
           result == <<r.completed_chunks, r.total_chunks, r.missing_chunks>>
       IN /\ disk' = r.disk
          /\ analysis' = [calls  |-> analysis.calls + 1,
                          before |-> disk,
                          first  |-> IF analysis.calls = 0 THEN result ELSE analysis.first,
                          result |-> result]
    /\ UNCHANGED <<chapters, coordinator, parVars, coordVars, auxVars, serVars, sessVars>>

\* something else writes or removes an artifact between two calls
DiskWrite ==
    /\ \E p \in AllPaths(chapters) :
          \/ \E content \in Contents :
                /\ ~(Exists(disk, p) /\ disk[p] = content)
                /\ disk' = WriteFile(disk, p, content)
          \/ /\ Exists(disk, p)
             /\ disk' = RemoveFile(disk, p)
    /\ analysis' = NoAnalysis
    /\ UNCHANGED <<chapters, coordinator, parVars, coordVars, auxVars, serVars, sessVars>>

AnalyzeInit ==
    /\ chapters \in ChapterPlans
    /\ disk \in Disks(chapters)
    /\ coordinator = CoordNew(0, 1)
    /\ ParIdle
    /\ CoordIdle
    /\ SerialIdle
    /\ SessionIdle
    /\ AnalysisIdle
    /\ AuxIdle

AnalyzeNext == AnalyzeCall \/ DiskWrite

SpecAnalyze == AnalyzeInit /\ [][AnalyzeNext]_vars

\* C13: a call of analyze_progress leaves the directory as it found it,
\* and two calls with no write in between return the same completed count,
\* total and missing list.
C13_AnalyzeReadOnlyIdempotent ==
    /\ analysis.calls >= 1 => disk = analysis.before
    /\ analysis.calls >= 2 => analysis.result = analysis.first

\* two calls were made on a directory that holds a zero-length chunk file
\* and has chunks missing
C13_Witness ==
    /\ analysis.calls = 2
    /\ \E p \in DOMAIN disk : p.kind = "chunk" /\ disk[p] = "empty"
    /\ analysis.result[3] # <<>>
    /\ analysis.result[1] > 0


C15_CountedChunkFullyWritten ==
    \A c \in 1..Len(chapters) : \A i \in 1..chapters[c].chunks :
        LET chunk_file == ChunkFile(chapters[c].dir_name, i)
        IN (Exists(disk, chunk_file) /\ i \notin AnalyzeChapter(disk, chapters[c]))
              => disk[chunk_file] = "full"


\* C16: a worker submits its chunks in the order of its assignment, which
\* is ascending in the global chunk index: what it has submitted so far is
\* a prefix of the assignment, also when the assignment spans chapters and
\* the wrapper has regrouped it.  (All attempts on a chunk are made inside
\* one pass of the loop over assigned_chunks, before the next chunk.)
C16_SubmittedInAssignedOrder ==
    rpc \in {"gathering", "done"} =>
        \A w \in WorkerIds :
            LET a == get_worker_assignment(coordinator, w)
            IN /\ Len(subLog[w]) <= Len(a)
               /\ \A k \in 1..Len(subLog[w]) :
                     /\ subLog[w][k] = a[k].idx
                     /\ k > 1 => subLog[w][k - 1] < subLog[w][k]

\* a worker has submitted two chunks that lie in different chapters
C16_Witness ==
    \E w \in WorkerIds :
        /\ Len(subLog[w]) = 2
        /\ ChapterOf(subLog[w][1]) # ChapterOf(subLog[w][2])


\* C17: while a worker waits for the operator inside request_audio, every
\* other worker that still has work (it has not returned) can take a step.
C17_SiblingsRunDuringWait ==
    waiting # 0 =>
        \A v \in WorkerIds \ {waiting} :
            workers[v].pc \in {"created", "running"} =>
                ENABLED (WorkerInitialize(v) \/ ProcessChunk(v))


(***************************************************************************)
(* Claims about one request_audio call and about restart() (SpecSession).  *)
(***************************************************************************)
\* the fetches a call made (page.evaluate was called) and its pauses
Fetches(trace) == Cardinality({k \in 1..Len(trace) : trace[k] \in FetchResults})
Pauses(trace) == Count(trace, "pause")

\* C18: a 429 answer ends the call: nothing is fetched and nobody is asked
\* after it, the call returns "RATE_LIMIT", and the health counters record
\* the request as a failure (request_count has counted every fetch of the
\* call, success_count none, and the newest entry of recent_results is
\* False).
C18_RateLimitReturnsAtOnce ==
    lastCall.op = "request" =>
        \A k \in 1..Len(lastCall.trace) :
            lastCall.trace[k] = "429" =>
                /\ k = Len(lastCall.trace)
                /\ lastCall.ret = "RATE_LIMIT"
                /\ session.request_count = lastCall.before.request_count + Fetches(lastCall.trace)
                /\ session.success_count = lastCall.before.success_count
                /\ session.recent_results # <<>>
                /\ session.recent_results[Len(session.recent_results)] = FALSE

\* a call whose first fetch was answered 429, on a session with requests
\* behind it
C18_Witness ==
    /\ lastCall.op = "request"
    /\ lastCall.trace = <<"429">>
    /\ lastCall.before.request_count > 0

\* C19 as stated: a call whose first fetch is answered 403 pauses once and
\* fetches exactly once more, returns None when that fetch is answered 403
\* again, and no call pauses twice or fetches three times.
C19_ForbiddenResendsOnce ==
    lastCall.op = "request" =>
        /\ Pauses(lastCall.trace) <= 1
        /\ Fetches(lastCall.trace) <= 2
        /\ (lastCall.trace # <<>> /\ lastCall.trace[1] = "403") =>
              /\ Pauses(lastCall.trace) = 1
              /\ Fetches(lastCall.trace) = 2
              /\ lastCall.trace[Len(lastCall.trace)] = "403" => lastCall.ret = "null"

\* C19, amended: a call whose first fetch is answered 403 pauses once and
\* makes one more pass; that pass fetches again unless the page still shows
\* a CAPTCHA, in which case the call returns None without fetching; a second
\* 403 returns None; and no call pauses twice or fetches three times.
C19_ForbiddenRetriesOnce ==
    lastCall.op = "request" =>
        /\ Pauses(lastCall.trace) <= 1
        /\ Fetches(lastCall.trace) <= 2
        /\ (lastCall.trace # <<>> /\ lastCall.trace[1] = "403") =>
              /\ Len(lastCall.trace) = 3
              /\ lastCall.trace[2] = "pause"
              /\ lastCall.trace[3] = "captcha" =>
                    (Fetches(lastCall.trace) = 1 /\ lastCall.ret = "null")
              /\ lastCall.trace[3] # "captcha" => Fetches(lastCall.trace) = 2
              /\ lastCall.trace[3] = "403" => lastCall.ret = "null"

\* a call that got 403, paused, fetched again and got 403 again
C19_Witness ==
    /\ lastCall.op = "request"
    /\ lastCall.trace = <<"403", "pause", "403">>

\* C20: when restart() has completed, the old browser is closed and the
\* session holds a new one, the only one running, and the counters are
\* those of a new session: request_count and success_count 0,
\* recent_results and response_times empty, baseline_response_time None,
\* current_delay base_delay, requests_since_captcha 0.
C20_RestartResets ==
    lastCall.op = "restart" =>
        /\ session.browser # lastCall.before.browser
        /\ session.launched = {session.browser}
        /\ session.request_count = 0
        /\ session.success_count = 0
        /\ session.recent_results = <<>>
        /\ session.response_times = <<>>
        /\ session.baseline_response_time = <<>>
        /\ session.current_delay = base_delay
        /\ session.requests_since_captcha = 0

\* restart() of a session that had requests, successes, a baseline and a
\* raised delay
C20_Witness ==
    /\ lastCall.op = "restart"
    /\ lastCall.before.request_count > 0
    /\ lastCall.before.success_count > 0
    /\ lastCall.before.response_times # <<>>
    /\ lastCall.before.baseline_response_time # <<>>
    /\ lastCall.before.current_delay # base_delay


(***************************************************************************)
(* SpecSafety: run_safety_test (main_document_mode_parallel.py), two test  *)
(* workers run by one asyncio.gather.  A step of a test worker is the code *)
(* between two awaits; what request_audio returns is the environment's     *)
(* choice.                                                                 *)
(***************************************************************************)
\* "if len(test_chunks) < 10"
SafetyMin == 10
\* "if worker.requests_since_captcha < 50"
EarlyThreshold == 50

\* the books the test is run on: chapters of 5 or 8 chunks
SafetySizes == {5, 8}
SafetyPlans ==
    {TocChapters(s, 0) : s \in UNION {[1..k -> SafetySizes] : k \in 1..MaxSafetyChapters}}

\* lines 72-79: the first chunks of the book, chapter by chapter, with the
\* index of each chunk in its chapter
RECURSIVE TestChunksFrom(_, _, _, _)
TestChunksFrom(chs, c, chunk_idx, test_chunks) ==
    IF c > Len(chs) THEN test_chunks
    ELSE IF chunk_idx > chs[c].chunks
    THEN IF Len(test_chunks) >= SafetyCap THEN test_chunks
         ELSE TestChunksFrom(chs, c + 1, 1, test_chunks)
    ELSE IF Len(test_chunks) >= SafetyCap
    THEN test_chunks
    ELSE TestChunksFrom(chs, c, chunk_idx + 1,
                        Append(test_chunks, [idx |-> chunk_idx, chapter |-> c]))

TestChunks(chs) == TestChunksFrom(chs, 1, 1, <<>>)

\* mark_worker_started
mark_worker_started(c, w) ==
    LET c1 == IF ~c.start_time THEN [c EXCEPT !.start_time = TRUE] ELSE c
    IN IF w \in DOMAIN c1.worker_progress
       THEN [c1 EXCEPT !.worker_progress[w].status = "working"]
       ELSE c1

\* OnTestAudio without the test of requests_since_captcha
OnTestAudioAnyCount(audio_data, requests_since_captcha) ==
    IF audio_data = "null" THEN "break" ELSE "progress"

\* lines 112-128: what a test worker does with what request_audio returned:
\* "detected" sets rate_limit_detected and returns, "progress" reports to
\* the coordinator and goes on ("RATE_LIMIT" is a non-empty string, so it is
\* true in "if audio_data"), "break" leaves the loop
OnTestAudio(audio_data, requests_since_captcha) ==
    IF audio_data = "RATE_LIMIT" /\ requests_since_captcha < EarlyThreshold
    THEN "detected"
    ELSE IF audio_data = "null" THEN "break"
    ELSE "progress"

\* WorkerBrowser(worker_id) of the test; early, limited and no_audio are
\* history: the worker got RATE_LIMIT with requests_since_captcha below the
\* threshold, it got RATE_LIMIT at all, a request of it returned None
NewTestWorker ==
    [pc |-> "created", pos |-> 0,
     requests_since_captcha |-> NewSession.requests_since_captcha,
     early |-> FALSE, limited |-> FALSE, no_audio |-> FALSE,
     cleaned |-> FALSE]

\* TestWorkerReturned with the finally clause left out
TestWorkerReturnedUncleaned(wk) == [wk EXCEPT !.pc = "returned"]

\* lines 133-135: run_test_worker ends, by a return, by falling off the end
\* of the try block or through "except Exception"; on each of these paths
\* "finally: await worker.cleanup()" runs before the coroutine is done
TestWorkerReturned(wk) == [wk EXCEPT !.pc = "returned", !.cleaned = TRUE]

\* lines 139-147
SafetyVerdict(rate_limit_detected, workers_succeeded) ==
    IF rate_limit_detected THEN <<FALSE, "rate_limit">>
    ELSE IF workers_succeeded < 2 THEN <<FALSE, "errors">>
    ELSE <<TRUE, "passed">>

\* lines 72-90: collect the test chunks, give up below 10, else make the
\* coordinator of the test and distribute
SafetyStart ==
    /\ safety.pc = "start"
    /\ LET test_chunks == TestChunks(chapters)
       IN IF Len(test_chunks) < SafetyMin
          THEN /\ safety' = [pc |-> "done", ntest |-> Len(test_chunks),
                             workers_succeeded |-> 0, rate_limit_detected |-> FALSE,
                             w |-> <<>>, ret |-> <<FALSE, "not_enough">>]
               /\ UNCHANGED coordinator
          ELSE /\ safety' = [pc |-> "gathering", ntest |-> Len(test_chunks),
                             workers_succeeded |-> 0, rate_limit_detected |-> FALSE,
                             w |-> <<NewTestWorker, NewTestWorker>>,
                             ret |-> <<FALSE, "none">>]
               /\ coordinator' = distribute_chunks(CoordNew(Len(test_chunks), 2), test_chunks)
    /\ UNCHANGED <<chapters, disk, parVars, coordVars, anVars, fcall, marked, serVars, sessVars>>

\* lines 100-106: initialize(), which may raise, and mark_worker_started;
\* "except Exception" marks the worker failed, "finally" cleans up
TestWorkerInitialize(w) ==
    /\ safety.pc = "gathering"
    /\ safety.w[w].pc = "created"
    /\ \E exc \in BOOLEAN :
         IF exc
         THEN /\ coordinator' = mark_worker_failed(coordinator, w)
              /\ safety' = [safety EXCEPT !.w[w] = TestWorkerReturned(@)]
         ELSE /\ coordinator' = mark_worker_started(coordinator, w)
              /\ safety' = [safety EXCEPT !.w[w].pc = "running", !.w[w].pos = 1]
    /\ UNCHANGED <<chapters, disk, parVars, coordVars, anVars, fcall, marked, serVars, sessVars>>

\* lines 123-124 and the finally clause: the loop is over
TestWorkerSucceeded(s, w) ==
    [s EXCEPT !.workers_succeeded = @ + 1, !.w[w] = TestWorkerReturned(@)]

\* lines 108-124: one request_audio call of the loop over the assignment
\* and what follows it up to the next await
TestWorkerRequest(w) ==
    /\ safety.pc = "gathering"
    /\ safety.w[w].pc = "running"
    /\ LET assignment == get_worker_assignment(coordinator, w)
           wk == safety.w[w]
       IN IF wk.pos > Len(assignment)
          THEN \* an empty assignment: the loop body never runs
               /\ safety' = TestWorkerSucceeded(safety, w)
               /\ coordinator' = mark_worker_completed(coordinator, w)
          ELSE \E audio_data \in {"bytes", "null", "RATE_LIMIT"} :
                 LET todo == OnTestAudio(audio_data, wk.requests_since_captcha)
                     s1 == [safety EXCEPT !.w[w].early =
                               @ \/ (audio_data = "RATE_LIMIT"
                                     /\ wk.requests_since_captcha < EarlyThreshold),
                                          !.w[w].limited = @ \/ audio_data = "RATE_LIMIT",
                                          !.w[w].no_audio = @ \/ audio_data = "null"]
                     \* len(worker.completed_chunks) + 1 and len(worker.failed_chunks): the
                     \* test never appends to either list
                     c1 == update_worker_progress(coordinator, w, 0 + 1, 0, "working")
                 IN IF todo = "detected"
                    THEN /\ safety' = [s1 EXCEPT !.rate_limit_detected = TRUE,
                                                 !.w[w] = TestWorkerReturned(@)]
                         /\ UNCHANGED coordinator
                    ELSE IF todo = "break"
                    THEN /\ safety' = TestWorkerSucceeded(s1, w)
                         /\ coordinator' = mark_worker_completed(coordinator, w)
                    ELSE IF wk.pos = Len(assignment)
                    THEN /\ safety' = TestWorkerSucceeded(s1, w)
                         /\ coordinator' = mark_worker_completed(c1, w)
                    ELSE /\ safety' = [s1 EXCEPT !.w[w].pos = @ + 1]
                         /\ coordinator' = c1
    /\ UNCHANGED <<chapters, disk, parVars, coordVars, anVars, fcall, marked, serVars, sessVars>>

\* lines 138-147: gather has both workers back; the verdict
SafetyEvaluate ==
    /\ safety.pc = "gathering"
    /\ \A w \in DOMAIN safety.w : safety.w[w].pc = "returned"
    /\ safety' = [safety EXCEPT !.pc = "done",
                     !.ret = SafetyVerdict(safety.rate_limit_detected, safety.workers_succeeded)]
    /\ UNCHANGED <<chapters, disk, coordinator, parVars, coordVars, anVars, fcall, marked, serVars, sessVars>>

SafetyInit ==
    /\ chapters \in SafetyPlans
    /\ disk = EmptyDisk
    /\ coordinator = CoordNew(0, 1)
    /\ safety = [pc |-> "start"]
    /\ fcall = [fn |-> "none"]
    /\ marked = {}
    /\ ParIdle
    /\ CoordIdle
    /\ SerialIdle
    /\ SessionIdle
    /\ AnalysisIdle

SafetyNext ==
    \/ SafetyStart
    \/ \E w \in {1, 2} : TestWorkerInitialize(w)
    \/ \E w \in {1, 2} : TestWorkerRequest(w)
    \/ SafetyEvaluate

SpecSafety == SafetyInit /\ [][SafetyNext]_vars

\* the g-th chunk of the book in document order, as a test chunk
RECURSIVE DocChunkFrom(_, _, _)
DocChunkFrom(chs, c, g) ==
    IF g <= chs[c].chunks THEN [idx |-> g, chapter |-> c]
    ELSE DocChunkFrom(chs, c + 1, g - chs[c].chunks)
DocChunk(chs, g) == DocChunkFrom(chs, 1, g)

\* C21: the test runs two workers on the first chunks of the book, no more
\* than the cap, dealt out in turn; and when a worker got RATE_LIMIT while its
\* requests_since_captcha was below 50, the test returns False, whatever
\* the other worker met.
C21_EarlyRateLimitMeansUnsafe ==
    /\ safety.pc \in {"gathering", "done"} =>
          /\ safety.ntest <= SafetyCap
          /\ safety.ntest <= TotalChunks(chapters)
          /\ safety.ntest >= SafetyMin =>
                /\ DOMAIN safety.w = {1, 2}
                /\ DOMAIN coordinator.chunk_assignments = {1, 2}
                /\ \A w \in {1, 2} :
                      LET a == get_worker_assignment(coordinator, w)
                      IN /\ \A k \in 1..Len(a) :
                               /\ 2 * (k - 1) + w <= safety.ntest
                               /\ a[k] = DocChunk(chapters, 2 * (k - 1) + w)
                         /\ safety.w[w].pos <= Len(a) + 1
                /\ Len(get_worker_assignment(coordinator, 1))
                      + Len(get_worker_assignment(coordinator, 2)) = safety.ntest
    /\ safety.pc = "done" =>
          ((\E w \in DOMAIN safety.w : safety.w[w].early) => safety.ret[1] = FALSE)

\* the test is over; worker 1 got an early RATE_LIMIT while worker 2 went
\* through all its chunks and is marked completed, on a book with more
\* chunks than the cap
C21_Witness ==
    /\ safety.pc = "done"
    /\ safety.ntest = SafetyCap
    /\ TotalChunks(chapters) > SafetyCap
    /\ safety.w[1].early
    /\ ~safety.w[2].early
    /\ coordinator.worker_progress[2].status = "completed"
    /\ safety.workers_succeeded = 1



\* ---------------------------------------------------------------------
\* Launch strategies (Spec)

\* the batch a worker id falls in under the sequential strategy
BatchOf(w) == (w - 1) \div launch.batch_size

\* the workers whose coroutine was made and has not returned yet
InFlight == {w \in WorkerIds : Launched(w) /\ workers[w].pc # "returned"}

\* C22: under the sequential strategy at most batch_size workers are in
\* flight at any time, and a worker of a later batch has its coroutine made
\* only when every worker of every earlier batch has returned, which
\* includes its cleanup
C22_SequentialBatches ==
    (launch.strategy = "sequential" /\ rpc \in {"gathering", "done"}) =>
        /\ Cardinality(InFlight) <= launch.batch_size
        /\ \A v, w \in WorkerIds :
              (Launched(w) /\ BatchOf(v) < BatchOf(w)) =>
                  /\ Launched(v)
                  /\ workers[v].pc = "returned"
                  /\ workers[v].cleaned

\* a worker of the second batch is at work
C22_Witness ==
    /\ launch.strategy = "sequential"
    /\ rpc = "gathering"
    /\ \E w \in WorkerIds : BatchOf(w) > 0 /\ Launched(w) /\ workers[w].pc = "running"

\* C30: under each strategy the coroutines are made for distinct worker
\* ids of 1..num_workers, each with the chunks at the global positions
\* w, w + num_workers, ... ; and when the merge has happened every worker id
\* has exactly one coroutine and every coroutine has returned
C30_EachWorkerLaunchedOnce ==
    rpc \in {"gathering", "done"} =>
        /\ \A k \in 1..Len(launch.tasks) :
              /\ launch.tasks[k].worker_id \in WorkerIds
              /\ \A j \in 1..Len(launch.tasks) :
                    launch.tasks[j].worker_id = launch.tasks[k].worker_id => j = k
              /\ LET w  == launch.tasks[k].worker_id
                     wc == launch.tasks[k].worker_chunks
                 IN /\ Len(wc) = Cardinality({g \in 1..TotalChunks(chapters) :
                                     (g - 1) % coordinator.num_workers = w - 1})
                    /\ \A j \in 1..Len(wc) :
                          wc[j] = AllChunks(chapters)[w + (j - 1) * coordinator.num_workers]
        /\ rpc = "done" =>
              /\ \A w \in WorkerIds : Launched(w) /\ workers[w].pc = "returned"
              /\ Len(launch.tasks) = coordinator.num_workers

\* merged runs of each strategy with more than one worker
C30_Witness ==
    /\ rpc = "done"
    /\ coordinator.num_workers > 1
    /\ launch.strategy = "staggered"
    /\ \A w \in WorkerIds : Len(TaskOf(w).worker_chunks) > 0



(***************************************************************************)
(* SpecCalc: the pure functions of the run, each applied to arguments      *)
(* drawn from bounded sets.  fcall holds one call: the function, its       *)
(* arguments and, once applied, <<what it returned>>.                      *)
(***************************************************************************)
\* a configuration value is <<>> when the key is absent, else <<value>>
Get(config, key, default) == IF config[key] = <<>> THEN default ELSE config[key][1]

\* math.ceil(a / b) for a >= 0 and b > 0
Ceil(a, b) == IF a % b = 0 THEN a \div b ELSE (a \div b) + 1

\* min(a, b)
Min(a, b) == IF a <= b THEN a ELSE b

\* calculate_optimal_workers rounding the quotient down
calculate_optimal_workersFloor(total_chunks, config) ==
    IF ~Get(config, "auto_calculate_workers", TRUE)
    THEN Get(config, "default_workers", 5)
    ELSE Min(total_chunks \div Get(config, "chunks_per_worker_target", 55),
             Get(config, "max_workers", 15))

\* main_document_mode_parallel.py lines 150-169
calculate_optimal_workers(total_chunks, config) ==
    IF ~Get(config, "auto_calculate_workers", TRUE)
    THEN Get(config, "default_workers", 5)
    ELSE LET chunks_per_worker == Get(config, "chunks_per_worker_target", 55)
             optimal == Ceil(total_chunks, chunks_per_worker)
             max_workers == Get(config, "max_workers", 15)
         IN Min(optimal, max_workers)

\* a key of the configuration file: absent, or one of the values vs
Setting(vs) == {<<>>} \cup {<<v>> : v \in vs}

\* the configurations of load_config that calculate_optimal_workers
\* reads, the counts positive
WorkerConfigs ==
    [auto_calculate_workers   : Setting(BOOLEAN),
     default_workers          : Setting(1..MaxSetting),
     chunks_per_worker_target : Setting(1..MaxSetting),
     max_workers              : Setting(1..MaxSetting)]

\* the calls of calculate_optimal_workers not yet applied
WorkerCalls ==
    [fn : {"calculate_optimal_workers"}, total_chunks : 0..MaxTotal,
     config : WorkerConfigs, ret : {<<>>}]

\* number_of_workers = calculate_optimal_workers(total_chunks, config)
ApplyOptimalWorkers ==
    /\ fcall.fn = "calculate_optimal_workers"
    /\ fcall.ret = <<>>
    /\ fcall' = [fcall EXCEPT !.ret = <<calculate_optimal_workers(fcall.total_chunks, fcall.config)>>]
    /\ UNCHANGED <<chapters, disk, coordinator, parVars, coordVars, anVars, safety, marked, serVars, sessVars>>

\* the clock readings of time.time(): the moment the run started and
\* moments up to two hours later
Clock == {100, 130, 700, 7300}

\* _calculate_eta testing for "Calculating..." before "Complete!"
calculate_etaCalculatingFirst(c, now) ==
    IF c.start_time = <<>> \/ c.overall_completed = 0
    THEN [kind |-> "Calculating..."]
    ELSE IF c.overall_completed = c.total_chunks
    THEN [kind |-> "Complete!"]
    ELSE [kind |-> "ZeroDivisionError"]

\* parallel_coordinator.py lines 274-304, now being what time.time()
\* returns.  The quotients are kept exact: eta_seconds is
\* remaining_chunks * elapsed / overall_completed, and int() of a
\* non-negative number is its floor.  A division by an elapsed time of
\* zero raises.
calculate_eta(c, now) ==
    IF c.overall_completed = c.total_chunks
    THEN [kind |-> "Complete!"]
    ELSE IF c.start_time = <<>> \/ c.overall_completed = 0
    THEN [kind |-> "Calculating..."]
    ELSE LET elapsed == now - c.start_time[1]
             remaining_chunks == c.total_chunks - c.overall_completed
             num == remaining_chunks * elapsed
             den == c.overall_completed
         IN IF elapsed = 0 THEN [kind |-> "ZeroDivisionError"]
            ELSE IF c.overall_completed = 0 THEN [kind |-> "Unknown"]
            ELSE IF num < 60 * den
                 THEN [kind |-> "eta", hr |-> <<>>, min |-> <<>>, sec |-> <<num \div den>>]
            ELSE IF num < 3600 * den
                 THEN [kind |-> "eta", hr |-> <<>>, min |-> <<num \div (60 * den)>>, sec |-> <<>>]
            ELSE [kind |-> "eta", hr |-> <<num \div (3600 * den)>>,
                  min |-> <<(num \div (60 * den)) % 60>>, sec |-> <<>>]

\* the coordinator fields _calculate_eta reads and the clock at the call
EtaCalls ==
    {call \in [fn : {"_calculate_eta"}, total_chunks : 0..MaxTotal,
               overall_completed : 0..MaxTotal, start_time : Setting({100}),
               now : Clock, ret : {<<>>}] :
        call.overall_completed <= call.total_chunks}

\* eta = self._calculate_eta()
ApplyEta ==
    /\ fcall.fn = "_calculate_eta"
    /\ fcall.ret = <<>>
    /\ fcall' = [fcall EXCEPT !.ret = <<calculate_eta(fcall, fcall.now)>>]
    /\ UNCHANGED <<chapters, disk, coordinator, parVars, coordVars, anVars, safety, marked, serVars, sessVars>>

\* A text is a sequence of characters.  The characters of the model: a
\* letter, the full stop (standing for . ! ?), the comma, the space, the newline and one
\* character outside ASCII.
Chars == {"a", ".", ",", " ", "\n", "U+00E9"}
Whitespace == {" ", "\n"}
SentenceEnds == {"."}

\* main.py line 2436: the characters with ord(char) < 128
validate_text(text) ==
    LET ascii(ch) == ch # "U+00E9" IN SelectSeq(text, ascii)

\* text[i:] for a 0-based i
From(text, i) == SubSeq(text, i + 1, Len(text))

\* text[:i] for a 0-based i
Upto(text, i) == SubSeq(text, 1, IF i < Len(text) THEN i ELSE Len(text))

\* str.lstrip()
RECURSIVE lstrip(_)
lstrip(text) ==
    IF text # <<>> /\ Head(text) \in Whitespace THEN lstrip(Tail(text)) ELSE text

\* str.rstrip()
RECURSIVE rstrip(_)
rstrip(text) ==
    IF text # <<>> /\ text[Len(text)] \in Whitespace
    THEN rstrip(SubSeq(text, 1, Len(text) - 1)) ELSE text

\* str.strip()
strip(text) == rstrip(lstrip(text))

\* the greatest element of a set of integers
Max(S) == CHOOSE m \in S : \A k \in S : k <= m

\* chunk.rfind(ch + " ") for a character ch, and chunk.rfind(" "): the
\* greatest 0-based position of a match, or -1
rfind2(chunk, ch) ==
    Max({-1} \cup {i \in 0..(Len(chunk) - 2) : chunk[i + 1] = ch /\ chunk[i + 2] = " "})
rfind(chunk, ch) ==
    Max({-1} \cup {i \in 0..(Len(chunk) - 1) : chunk[i + 1] = ch})

\* re.sub(r"\n\s*\n\s*\n+", "\n\n", text), scanning from the 1-based
\* position i: a match starts at a newline whose run of whitespace holds
\* three newlines or more and, being greedy, ends at the last newline of
\* the run
RECURSIVE SubNewlines(_, _)
SubNewlines(text, i) ==
    IF i > Len(text) THEN <<>>
    ELSE LET run  == Max({j \in i..Len(text) : \A k \in i..j : text[k] \in Whitespace} \cup {i - 1})
             nls  == {k \in i..run : text[k] = "\n"}
         IN IF text[i] = "\n" /\ Cardinality(nls) >= 3
            THEN <<"\n", "\n">> \o SubNewlines(text, Max(nls) + 1)
            ELSE <<text[i]>> \o SubNewlines(text, i + 1)

\* re.sub(r" +", " ", text)
RECURSIVE SubSpaces(_)
SubSpaces(text) ==
    IF Len(text) < 2 THEN text
    ELSE IF text[1] = " " /\ text[2] = " " THEN SubSpaces(Tail(text))
    ELSE <<text[1]>> \o SubSpaces(Tail(text))

\* SentenceEnd taking the character after the boundary as well
SentenceEndPastBoundary(text, chunk_size) ==
    LET chunk == Upto(text, chunk_size)
        s1 == Max({rfind2(chunk, ch) : ch \in SentenceEnds})
        s2 == IF s1 = -1 THEN rfind2(chunk, ",") ELSE s1
        s3 == IF s2 = -1 THEN rfind(chunk, " ") ELSE s2
    IN IF s3 = -1 THEN chunk_size ELSE s3 + 2

\* lines 1414-1429: sentence_end, the 0-based position the loop cuts at
SentenceEnd(text, chunk_size) ==
    LET chunk == Upto(text, chunk_size)
        s1 == Max({rfind2(chunk, ch) : ch \in SentenceEnds})
        s2 == IF s1 = -1 THEN rfind2(chunk, ",") ELSE s1
        s3 == IF s2 = -1 THEN rfind(chunk, " ") ELSE s2
    IN IF s3 = -1 THEN chunk_size ELSE s3 + 1

\* ChunkLoop taking the rest from one character too far
RECURSIVE ChunkLoopSkipping(_, _, _)
ChunkLoopSkipping(text, chunk_size, chunks) ==
    IF Len(text) = 0 THEN chunks
    ELSE IF Len(text) <= chunk_size THEN Append(chunks, strip(text))
    ELSE LET sentence_end == SentenceEnd(text, chunk_size)
         IN ChunkLoopSkipping(lstrip(From(text, sentence_end + 1)), chunk_size,
                              Append(chunks, strip(Upto(text, sentence_end))))

\* lines 1407-1430: the while loop
RECURSIVE ChunkLoop(_, _, _)
ChunkLoop(text, chunk_size, chunks) ==
    IF Len(text) = 0 THEN chunks
    ELSE IF Len(text) <= chunk_size THEN Append(chunks, strip(text))
    ELSE LET sentence_end == SentenceEnd(text, chunk_size)
         IN ChunkLoop(lstrip(From(text, sentence_end)), chunk_size,
                      Append(chunks, strip(Upto(text, sentence_end))))

\* main_document_mode.py lines 1386-1432: the chunks left in chapter.chunks
chunk_chapter_text(chapter_text, chunk_size) ==
    IF chapter_text = <<>> THEN <<>>
    ELSE LET text == SubSpaces(SubNewlines(validate_text(chapter_text), 1))
             nonempty(chunk) == chunk # <<>>
         IN SelectSeq(ChunkLoop(text, chunk_size, <<>>), nonempty)

\* the texts of at most MaxText characters
Texts == UNION {[1..n -> Chars] : n \in 0..MaxText}

\* the calls of chunk_chapter_text not yet applied
ChunkCalls ==
    [fn : {"chunk_chapter_text"}, text : Texts, chunk_size : 1..MaxChunkSize, ret : {<<>>}]

\* chunk_chapter_text(chapter, chunk_size)
ApplyChunkText ==
    /\ fcall.fn = "chunk_chapter_text"
    /\ fcall.ret = <<>>
    /\ fcall' = [fcall EXCEPT !.ret = <<chunk_chapter_text(fcall.text, fcall.chunk_size)>>]
    /\ UNCHANGED <<chapters, disk, coordinator, parVars, coordVars, anVars, safety, marked, serVars, sessVars>>

\* names of entries of the audio directory: runs of <book>_1 and <book>_2
\* of the book "b", a run of the book "bb", and a name without the "_"
EntryNames == {<<"b", "_", "1">>, <<"b", "_", "2">>, <<"b", "b", "_", "1">>, <<"b">>}
OutputNames == {<<"b">>, <<"b", "b">>}

\* str.startswith
startswith(name, pattern) ==
    /\ Len(name) >= Len(pattern)
    /\ SubSeq(name, 1, Len(pattern)) = pattern

\* what os.listdir("audio") can return: entries of distinct names, each a
\* directory or not, with its modification time
Entries == [name : EntryNames, is_dir : BOOLEAN, mtime : 1..MaxMtime]
Listings ==
    {l \in UNION {[1..n -> Entries] : n \in 0..MaxEntries} :
        \A i, j \in 1..Len(l) : l[i].name = l[j].name => i = j}

\* MatchingDirs that does not ask os.path.isdir
RECURSIVE MatchingDirsAnyKind(_, _, _)
MatchingDirsAnyKind(listing, pattern, i) ==
    IF i > Len(listing) THEN <<>>
    ELSE LET dir_path == <<"audio", listing[i].name>>
             rest == MatchingDirsAnyKind(listing, pattern, i + 1)
         IN IF startswith(listing[i].name, pattern)
            THEN <<[dir_path |-> dir_path, mtime |-> listing[i].mtime]>> \o rest
            ELSE rest

\* lines 1497-1500: the loop over os.listdir, from the 1-based position i
RECURSIVE MatchingDirs(_, _, _)
MatchingDirs(listing, pattern, i) ==
    IF i > Len(listing) THEN <<>>
    ELSE LET dir_path == <<"audio", listing[i].name>>
             rest == MatchingDirs(listing, pattern, i + 1)
         IN IF listing[i].is_dir /\ startswith(listing[i].name, pattern)
            THEN <<[dir_path |-> dir_path, mtime |-> listing[i].mtime]>> \o rest
            ELSE rest

\* lines 1505-1506: sort(key=mtime, reverse=True) is stable, so element 0
\* is the first of those with the greatest mtime
MostRecent(matching_dirs) ==
    LET newest == {i \in 1..Len(matching_dirs) :
                      \A j \in 1..Len(matching_dirs) :
                          matching_dirs[j].mtime <= matching_dirs[i].mtime}
    IN matching_dirs[CHOOSE i \in newest : \A j \in newest : i <= j]

\* main_document_mode.py lines 1483-1506; audio is <<>> when the audio
\* directory does not exist, else <<its listing>>; the result is <<>> for
\* None, else <<dir_path>>
find_existing_audio_directory(output_name, audio) ==
    IF audio = <<>> THEN <<>>
    ELSE LET pattern == output_name \o <<"_">>
             matching_dirs == MatchingDirs(audio[1], pattern, 1)
         IN IF matching_dirs = <<>> THEN <<>>
            ELSE <<MostRecent(matching_dirs).dir_path>>

\* the calls of find_existing_audio_directory not yet applied
FindCalls ==
    [fn : {"find_existing_audio_directory"}, output_name : OutputNames,
     audio : {<<>>} \cup {<<l>> : l \in Listings}, ret : {<<>>}]

\* existing_dir = find_existing_audio_directory(output_name)
ApplyFindExisting ==
    /\ fcall.fn = "find_existing_audio_directory"
    /\ fcall.ret = <<>>
    /\ fcall' = [fcall EXCEPT !.ret = <<find_existing_audio_directory(fcall.output_name, fcall.audio)>>]
    /\ UNCHANGED <<chapters, disk, coordinator, parVars, coordVars, anVars, safety, marked, serVars, sessVars>>

\* the session after update_health was called with each of results
RECURSIVE AfterResults(_, _)
AfterResults(s, results) ==
    IF results = <<>> THEN s
    ELSE AfterResults(update_health(s, Head(results)), Tail(results))

\* the session after update_response_time was called with each of times
RECURSIVE AfterTimes(_, _)
AfterTimes(s, times) ==
    IF times = <<>> THEN s
    ELSE AfterTimes(update_response_time(s, Head(times)), Tail(times))

\* the sessions calculate_adaptive_delay is called on: up to
\* health_window_size results of which the first k succeeded, and up to
\* MaxTimes response times
DelaySessions ==
    {AfterTimes(AfterResults(NewSession, [i \in 1..n |-> i <= k]), times) :
        n \in 0..health_window_size, k \in 0..health_window_size,
        times \in UNION {[1..m -> ResponseTimes] : m \in 0..MaxTimes}}

\* the calls of calculate_adaptive_delay not yet applied
DelayCalls == [fn : {"calculate_adaptive_delay"}, session : DelaySessions, ret : {<<>>}]

\* self.current_delay = self.calculate_adaptive_delay()
ApplyAdaptiveDelay ==
    /\ fcall.fn = "calculate_adaptive_delay"
    /\ fcall.ret = <<>>
    /\ fcall' = [fcall EXCEPT !.ret = <<calculate_adaptive_delay(fcall.session)>>]
    /\ UNCHANGED <<chapters, disk, coordinator, parVars, coordVars, anVars, safety, marked, serVars, sessVars>>

CalcInit ==
    /\ fcall \in WorkerCalls \cup EtaCalls \cup ChunkCalls \cup FindCalls
                \cup DelayCalls
    /\ safety = [pc |-> "idle"]
    /\ marked = {}
    /\ coordinator = CoordNew(0, 0)
    /\ JobIdle
    /\ ParIdle
    /\ CoordIdle
    /\ SerialIdle
    /\ AnalysisIdle
    /\ SessionIdle

CalcNext ==
    \/ ApplyOptimalWorkers
    \/ ApplyEta
    \/ ApplyChunkText
    \/ ApplyFindExisting
    \/ ApplyAdaptiveDelay

SpecCalc == CalcInit /\ [][CalcNext]_vars

\* C23: with auto-calculation on, calculate_optimal_workers returns the
\* least count of workers whose target share covers total_chunks, or
\* max_workers when that is smaller, which for total_chunks >= 1 lies in
\* 1..max_workers; with auto-calculation off it returns the configured
\* default_workers whatever total_chunks is
C23_OptimalWorkers ==
    (fcall.fn = "calculate_optimal_workers" /\ fcall.ret # <<>>) =>
        LET cfg == fcall.config
            n   == fcall.ret[1]
            cpw == Get(cfg, "chunks_per_worker_target", 55)
            mx  == Get(cfg, "max_workers", 15)
        IN IF Get(cfg, "auto_calculate_workers", TRUE)
           THEN /\ \/ n = mx /\ n * cpw <= fcall.total_chunks + cpw - 1
                   \/ /\ n < mx
                      /\ n * cpw >= fcall.total_chunks
                      /\ (n - 1) * cpw < fcall.total_chunks
                /\ fcall.total_chunks >= 1 => n \in 1..mx
           ELSE n = Get(cfg, "default_workers", 5)

\* a book whose quotient is not whole and stays under the cap
C23_Witness ==
    /\ fcall.fn = "calculate_optimal_workers"
    /\ fcall.ret = <<2>>
    /\ fcall.config.auto_calculate_workers = <<TRUE>>
    /\ fcall.config.chunks_per_worker_target = <<2>>
    /\ fcall.config.max_workers = <<3>>
    /\ fcall.total_chunks = 3

\* C25: _calculate_eta returns "Complete!" exactly when overall_completed
\* equals total_chunks; otherwise "Calculating..." whenever start_time is
\* unset or nothing has completed; and an estimate only when start_time is
\* set and something has completed, the estimate being the whole seconds,
\* minutes, or hours and minutes of remaining * elapsed / overall_completed
C25_Eta ==
    (fcall.fn = "_calculate_eta" /\ fcall.ret # <<>>) =>
        LET r == fcall.ret[1]
            done == fcall.overall_completed
            remaining == fcall.total_chunks - done
            unset == fcall.start_time = <<>>
        IN /\ (r.kind = "Complete!") <=> (done = fcall.total_chunks)
           /\ (done # fcall.total_chunks /\ (unset \/ done = 0)) => r.kind = "Calculating..."
           /\ r.kind = "eta" =>
                 /\ ~unset /\ done >= 1
                 /\ LET x == remaining * (fcall.now - fcall.start_time[1])
                        whole == IF r.sec # <<>> THEN r.sec[1]
                                 ELSE IF r.hr = <<>> THEN 60 * r.min[1]
                                 ELSE 3600 * r.hr[1] + 60 * r.min[1]
                        unit == IF r.sec # <<>> THEN 1 ELSE 60
                    IN /\ whole * done <= x
                       /\ x < (whole + unit) * done
                       /\ r.sec # <<>> <=> x < 60 * done
                       /\ r.hr # <<>> <=> x >= 3600 * done

\* an estimate in minutes
C25_Witness ==
    /\ fcall.fn = "_calculate_eta"
    /\ fcall.ret # <<>>
    /\ fcall.ret[1].kind = "eta"
    /\ fcall.ret[1].min # <<>>
    /\ fcall.ret[1].hr = <<>>

(***************************************************************************)
(* SpecMark: any sequence of mark_worker_started, mark_worker_completed,   *)
(* mark_worker_failed and mark_worker_captcha calls, for known and unknown *)
(* worker ids, on a coordinator of any size.  fcall holds the last call    *)
(* and the end_time it found.                                              *)
(***************************************************************************)
\* parallel_coordinator.py lines 177-180
mark_worker_captcha(c, w) ==
    IF w \in DOMAIN c.worker_progress
    THEN [c EXCEPT !.worker_progress[w].status = "captcha"]
    ELSE c

\* the worker ids the methods are called with: known ones and two unknown
MarkIds == 0..(MaxCoordWorkers + 1)

\* what a call leaves in fcall: the method, its argument and the end_time
\* it found
CallRecord(fn, w) == [fn |-> fn, worker_id |-> w, end_time |-> coordinator.end_time]

MarkStarted ==
    \E w \in MarkIds :
        /\ coordinator' = mark_worker_started(coordinator, w)
        /\ fcall' = CallRecord("mark_worker_started", w)
        /\ UNCHANGED <<chapters, disk, parVars, coordVars, anVars, safety, marked, serVars, sessVars>>

MarkCompleted ==
    \E w \in MarkIds :
        /\ coordinator' = mark_worker_completed(coordinator, w)
        /\ fcall' = CallRecord("mark_worker_completed", w)
        /\ marked' = marked \cup {w}
        /\ UNCHANGED <<chapters, disk, parVars, coordVars, anVars, safety, serVars, sessVars>>

MarkFailedCall ==
    \E w \in MarkIds :
        /\ coordinator' = mark_worker_failed(coordinator, w)
        /\ fcall' = CallRecord("mark_worker_failed", w)
        /\ UNCHANGED <<chapters, disk, parVars, coordVars, anVars, safety, marked, serVars, sessVars>>

MarkCaptcha ==
    \E w \in MarkIds :
        /\ coordinator' = mark_worker_captcha(coordinator, w)
        /\ fcall' = CallRecord("mark_worker_captcha", w)
        /\ UNCHANGED <<chapters, disk, parVars, coordVars, anVars, safety, marked, serVars, sessVars>>

MarkInit ==
    /\ \E n \in 1..MaxCoordWorkers : coordinator = CoordNew(n * MaxCount, n)
    /\ JobIdle
    /\ ParIdle
    /\ CoordIdle
    /\ SerialIdle
    /\ AnalysisIdle
    /\ AuxIdle
    /\ SessionIdle

MarkNext ==
    \/ MarkStarted
    \/ MarkCompleted
    \/ MarkFailedCall
    \/ MarkCaptcha

SpecMark == MarkInit /\ [][MarkNext]_vars

\* what mark_worker_completed does, as the state right after a call shows
\* it: the worker, if known, is completed; end_time is set when every
\* worker is completed and is left as the call found it otherwise
CompletedCallStamps ==
    fcall.fn = "mark_worker_completed" =>
        LET wp == coordinator.worker_progress
            all == \A v \in DOMAIN wp : wp[v].status = "completed"
        IN /\ fcall.worker_id \in DOMAIN wp => wp[fcall.worker_id].status = "completed"
           /\ all => coordinator.end_time
           /\ ~all => coordinator.end_time = fcall.end_time

\* C24 as stated: mark_worker_completed completes the worker and stamps
\* end_time exactly when every worker is then completed, and end_time is
\* unset in every state where some worker is not completed
C24_EndTimeUnsetWhileIncomplete ==
    /\ CompletedCallStamps
    /\ (\E v \in DOMAIN coordinator.worker_progress :
           coordinator.worker_progress[v].status # "completed")
          => ~coordinator.end_time

\* C24, amended: mark_worker_completed completes the worker and stamps
\* end_time exactly when every worker is then completed, and end_time is
\* unset in every state where some worker has not been marked completed yet
C24_EndTimeUnsetUntilAllMarked ==
    /\ CompletedCallStamps
    /\ (\E v \in DOMAIN coordinator.worker_progress : v \notin marked)
          => ~coordinator.end_time

\* the call that completes the last worker has stamped end_time
C24_Witness ==
    /\ fcall.fn = "mark_worker_completed"
    /\ ~fcall.end_time
    /\ coordinator.end_time
    /\ coordinator.num_workers = 2
    /\ marked = {1, 2}



\* the characters of a text that are not whitespace, in order
Ink(text) == LET ink(ch) == ch \notin Whitespace IN SelectSeq(text, ink)

\* the chunks written one after the other
RECURSIVE Joined(_)
Joined(chunks) == IF chunks = <<>> THEN <<>> ELSE Head(chunks) \o Joined(Tail(chunks))

\* C26: the chunks of chunk_chapter_text, written one after the other,
\* hold the characters of the sanitized chapter text that are not
\* whitespace, each once and in the same order
C26_ChunksPreserveText ==
    (fcall.fn = "chunk_chapter_text" /\ fcall.ret # <<>>) =>
        Ink(Joined(fcall.ret[1])) = Ink(validate_text(fcall.text))

\* a text cut after a sentence end into two chunks
C26_Witness ==
    /\ fcall.fn = "chunk_chapter_text"
    /\ fcall.ret # <<>>
    /\ fcall.text = <<"a", ".", " ", "a">>
    /\ fcall.chunk_size = 3
    /\ fcall.ret[1] = << <<"a", ".">>, <<"a">> >>



\* the entries of the audio directory that are directories whose name
\* begins with output_name followed by "_"
Candidates ==
    IF fcall.audio = <<>> THEN {}
    ELSE {e \in Range(fcall.audio[1]) :
             /\ e.is_dir
             /\ Len(e.name) > Len(fcall.output_name)
             /\ \A i \in 1..Len(fcall.output_name) : e.name[i] = fcall.output_name[i]
             /\ e.name[Len(fcall.output_name) + 1] = "_"}

\* C27: find_existing_audio_directory returns None when the audio
\* directory is absent or lists no directory whose name begins with
\* output_name + "_", and otherwise the path of such a directory whose
\* modification time no other such directory exceeds
C27_FindsMostRecentDirectory ==
    (fcall.fn = "find_existing_audio_directory" /\ fcall.ret # <<>>) =>
        LET found == fcall.ret[1]
        IN IF Candidates = {} THEN found = <<>>
           ELSE /\ found # <<>>
                /\ \E e \in Candidates :
                      /\ found[1] = <<"audio", e.name>>
                      /\ \A d \in Candidates : d.mtime <= e.mtime

\* an older run, a newer run and a newer plain file of the same book
C27_Witness ==
    /\ fcall.fn = "find_existing_audio_directory"
    /\ fcall.ret = << << <<"audio", <<"b", "_", "1">> >> >> >>
    /\ fcall.output_name = <<"b">>
    /\ \E e \in Range(fcall.audio[1]) : ~e.is_dir /\ e.name = <<"b", "_", "2">> /\ e.mtime > 1



\* C28: when process_assigned_chunks has returned for every group of a
\* worker, each chunk of the worker's assignment is once in completed_chunks
\* or once in failed_chunks, not in both and not in neither: for every
\* chunk_idx, its entries in the two lists are as many as the assigned
\* chunks carrying it
C28_EachChunkCompletedOrFailed ==
    \A w \in WorkerIds :
        (workers[w].pc = "returned" /\ ~workers[w].ret.error) =>
            \A i \in 1..MaxChunks :
                Count(workers[w].completed_chunks, i) + Count(workers[w].failed_chunks, i)
                    = Cardinality({g \in Assigned(w) : LocalIdx(g) = i})



(***************************************************************************)
(* SpecRetry: one call of WorkerBrowser.process_assigned_chunks on any     *)
(* assignment of chunks of one chapter, every request_audio and restart    *)
(* call returning or raising.  fcall holds the call: its arguments, the    *)
(* number of request_audio calls made for each chunk gone through, and     *)
(* how the call ended.  SpecRetryFair adds that the worker keeps running.  *)
(***************************************************************************)
\* the assignments handed to one call: chunk indices of the chapter
Assignments(ch) == UNION {[1..n -> 1..ch.chunks] : n \in 0..MaxAssign}

\* worker_browser.py lines 258-313: one iteration of the loop over
\* assigned_chunks; an exception leaves the call
RetryChunk ==
    /\ fcall.fn = "process_assigned_chunks"
    /\ fcall.ended = "no"
    /\ workers[1].ci <= Len(fcall.assigned_chunks)
    /\ \E outs \in AttemptSeqs :
         LET wk == workers[1]
             st == ProcessOneChunk(wk, disk, outs, fcall.dir_name, fcall.assigned_chunks[wk.ci])
         IN /\ disk' = st.disk
            /\ workers' = [workers EXCEPT ![1].completed_chunks = st.completed_chunks,
                                          ![1].failed_chunks = st.failed_chunks,
                                          ![1].audio_data = st.audio_data,
                                          ![1].ci = @ + 1]
            /\ fcall' = [fcall EXCEPT !.requests = Append(@, Len(st.requests)),
                                      !.ended = IF st.exc THEN "raised" ELSE "no"]
    /\ UNCHANGED <<chapters, coordinator, rpc, merged, chunkLog, raised, subLog, waiting, launch,
                   coordVars, anVars, safety, marked, serVars, sessVars>>

\* lines 320-327: the loop is over, the result dict is returned
RetryReturn ==
    /\ fcall.fn = "process_assigned_chunks"
    /\ fcall.ended = "no"
    /\ workers[1].ci > Len(fcall.assigned_chunks)
    /\ fcall' = [fcall EXCEPT !.ended = "returned"]
    /\ UNCHANGED <<chapters, disk, coordinator, parVars, coordVars, anVars, safety, marked,
                   serVars, sessVars>>

RetryInit ==
    /\ chapters \in ChapterPlans
    /\ disk = EmptyDisk
    /\ workers = <<[NewWorker EXCEPT !.pc = "running", !.gi = 1, !.ci = 1]>>
    /\ \E c \in 1..Len(chapters) : \E a \in Assignments(chapters[c]) :
         fcall = [fn |-> "process_assigned_chunks", dir_name |-> chapters[c].dir_name,
                  assigned_chunks |-> a, requests |-> <<>>, ended |-> "no"]
    /\ coordinator = CoordNew(0, 0)
    /\ rpc = "init"
    /\ merged = NoMerge
    /\ chunkLog = <<>>
    /\ raised = <<>>
    /\ subLog = <<>>
    /\ waiting = 0
    /\ launch = [strategy |-> "none"]
    /\ safety = [pc |-> "idle"]
    /\ marked = {}
    /\ CoordIdle
    /\ SerialIdle
    /\ AnalysisIdle
    /\ SessionIdle

RetryNext ==
    \/ RetryChunk
    \/ RetryReturn

SpecRetry == RetryInit /\ [][RetryNext]_vars

\* every call the worker makes returns or raises, so the worker goes on
SpecRetryFair == SpecRetry /\ WF_vars(RetryNext)

\* C29: process_assigned_chunks makes at most three request_audio calls
\* for a chunk, those answered with RATE_LIMIT counted, and a run over a
\* finite assignment whose calls all return comes to its end
C29_AtMostThreeRequestsAndEnds ==
    /\ [](fcall.fn = "process_assigned_chunks" =>
             \A k \in 1..Len(fcall.requests) : fcall.requests[k] <= 3)
    /\ <>(fcall.fn = "process_assigned_chunks" /\ fcall.ended # "no")

\* a chunk answered with RATE_LIMIT three times, and the call returned
C29_Witness ==
    /\ fcall.fn = "process_assigned_chunks"
    /\ fcall.ended = "returned"
    /\ Len(fcall.requests) = 2
    /\ fcall.requests[1] = 3
    /\ workers[1].audio_data = "RATE_LIMIT"
    /\ workers[1].completed_chunks = <<>> /\ workers[1].failed_chunks = <<>>



(***************************************************************************)
(* Claims about the accounting of analyze_progress (SpecAnalyze).          *)
(***************************************************************************)
\* the chunks, as (position of the chapter, index in the chapter), that
\* have no artifact of non-zero size in directory d: neither the chunk file
\* nor the chapter's concatenated file
Unpersisted(d) ==
    {ci \in UNION {{<<c, i>> : i \in 1..chapters[c].chunks} : c \in 1..Len(chapters)} :
        LET ch == chapters[ci[1]]
            persisted(p) == p \in DOMAIN d /\ d[p] # "empty"
        IN ~persisted(ConcatFile(ch.dir_name)) /\ ~persisted(ChunkFile(ch.dir_name, ci[2]))}

\* the place of a chunk among those of S, in chapter order then chunk order
RankIn(S, ci) ==
    Cardinality({x \in S : x[1] < ci[1] \/ (x[1] = ci[1] /\ x[2] <= ci[2])})

\* C31: analyze_progress accounts for every chunk once: completed plus the
\* length of missing is the total, which is the sum of the chapters'
\* chunk counts, and missing holds, in chapter order then chunk order, one
\* (chapter.number, index) entry for each chunk that has neither a
\* non-empty chunk file nor a non-empty concatenated file, and nothing else
C31_EveryChunkAccountedOnce ==
    analysis.calls >= 1 =>
        LET completed == analysis.result[1]
            total     == analysis.result[2]
            missing   == analysis.result[3]
            U         == Unpersisted(analysis.before)
        IN /\ total = SeqSum([c \in 1..Len(chapters) |-> chapters[c].chunks])
           /\ completed + Len(missing) = total
           /\ Len(missing) = Cardinality(U)
           /\ \A ci \in U : missing[RankIn(U, ci)] = <<chapters[ci[1]].number, ci[2]>>

\* two chapters, the first with a zero-length chunk file, the second with
\* a chunk file that has content
C31_Witness ==
    /\ analysis.calls >= 1
    /\ Len(chapters) = 2
    /\ analysis.result[1] = 1
    /\ Len(analysis.result[3]) = 1
    /\ \E p \in DOMAIN analysis.before :
          p.kind = "chunk" /\ p.dir = chapters[1].dir_name /\ analysis.before[p] = "empty"



\* C33: calculate_adaptive_delay returns base_delay when the health score
\* is at least 0.90 and the recent responses are not slower than 1.5 times
\* the baseline; otherwise it adds (0.90 - health) * 10 seconds for low
\* health (here to the millisecond) and 2 seconds for slow responses, capped
\* at max_delay; the result is never below base_delay nor above max_delay
C33_AdaptiveDelay ==
    (fcall.fn = "calculate_adaptive_delay" /\ fcall.ret # <<>>) =>
        LET s == fcall.session
            delay == fcall.ret[1]
            n == Len(s.recent_results)
            k == Cardinality({i \in 1..n : s.recent_results[i]})
            healthy == n = 0 \/ 10 * k >= 9 * n
            m == Len(s.response_times)
            recent == {i \in 1..m : i > m - 3}
            slow == /\ s.baseline_response_time # <<>>
                    /\ m > 0
                    /\ 2 * SumOver(s.response_times, recent) * s.baseline_response_time[2]
                          > 3 * s.baseline_response_time[1] * Cardinality(recent)
            extra == IF slow THEN 2000 ELSE 0
        IN /\ (healthy /\ ~slow) => delay = base_delay
           /\ healthy => delay = base_delay + extra
           /\ ~healthy =>
                 \E penalty \in 1..9000 :
                     /\ n * penalty <= 1000 * (9 * n - 10 * k)
                     /\ 1000 * (9 * n - 10 * k) < n * (penalty + 1)
                     /\ delay = IF base_delay + penalty + extra < max_delay
                                THEN base_delay + penalty + extra ELSE max_delay
           /\ base_delay <= delay
           /\ delay <= max_delay

\* 17 of 20 requests succeeded and the last answers were slow: half a
\* second and two seconds are added
C33_Witness ==
    /\ fcall.fn = "calculate_adaptive_delay"
    /\ fcall.ret = <<5000>>
    /\ Len(fcall.session.recent_results) = 20
    /\ Len(fcall.session.response_times) >= 3



\* ---------------------------------------------------------------------
\* chunk_chapter_text step by step (SpecChunk): fcall holds the call, its
\* local text, its local chunks and the position it is at
\* ---------------------------------------------------------------------

ChunkFrame == <<chapters, disk, coordinator, parVars, coordVars, anVars, safety, marked, serVars, sessVars>>

\* lines 1391-1393: "if not chapter.text: chapter.chunks = []; return"
ChunkEmptyText ==
    /\ fcall.pc = "start"
    /\ fcall.chapter_text = <<>>
    /\ fcall' = [fcall EXCEPT !.pc = "done", !.ret = <<>>]
    /\ UNCHANGED ChunkFrame

\* lines 1395-1402: validate_text, the two re.sub, chunks = []
ChunkClean ==
    /\ fcall.pc = "start"
    /\ fcall.chapter_text # <<>>
    /\ fcall' = [fcall EXCEPT !.pc = "while", !.chunks = <<>>,
                   !.text = SubSpaces(SubNewlines(validate_text(fcall.chapter_text), 1))]
    /\ UNCHANGED ChunkFrame

\* line 1404: "while len(text) > 0" is false
ChunkLoopExit ==
    /\ fcall.pc = "while"
    /\ Len(fcall.text) = 0
    /\ fcall' = [fcall EXCEPT !.pc = "filter"]
    /\ UNCHANGED ChunkFrame

\* lines 1405-1407: the rest fits one chunk; append and break
ChunkLast ==
    /\ fcall.pc = "while"
    /\ Len(fcall.text) > 0
    /\ Len(fcall.text) <= fcall.chunk_size
    /\ fcall' = [fcall EXCEPT !.pc = "filter", !.chunks = Append(@, strip(fcall.text))]
    /\ UNCHANGED ChunkFrame

\* lines 1409-1430: one cut at sentence_end
ChunkCut ==
    /\ fcall.pc = "while"
    /\ Len(fcall.text) > fcall.chunk_size
    /\ LET sentence_end == SentenceEnd(fcall.text, fcall.chunk_size)
       IN fcall' = [fcall EXCEPT
                      !.chunks = Append(@, strip(Upto(fcall.text, sentence_end))),
                      !.text = lstrip(From(fcall.text, sentence_end))]
    /\ UNCHANGED ChunkFrame

\* line 1432: chapter.chunks = [chunk for chunk in chunks if chunk]
ChunkFilter ==
    /\ fcall.pc = "filter"
    /\ LET nonempty(chunk) == chunk # <<>>
       IN fcall' = [fcall EXCEPT !.pc = "done", !.ret = SelectSeq(fcall.chunks, nonempty)]
    /\ UNCHANGED ChunkFrame

ChunkInit ==
    /\ \E t \in UNION {[1..m -> Chars] : m \in 0..MaxLoopText} : \E n \in 1..MaxChunkSize :
         fcall = [fn |-> "chunk_chapter_text", chapter_text |-> t, chunk_size |-> n,
                  pc |-> "start", text |-> <<>>, chunks |-> <<>>, ret |-> <<>>]
    /\ chapters = <<>>
    /\ disk = EmptyDisk
    /\ coordinator = CoordNew(0, 0)
    /\ ParIdle
    /\ CoordIdle
    /\ SerialIdle
    /\ AnalysisIdle
    /\ SessionIdle
    /\ safety = [pc |-> "idle"]
    /\ marked = {}

ChunkNext ==
    \/ ChunkEmptyText
    \/ ChunkClean
    \/ ChunkLoopExit
    \/ ChunkLast
    \/ ChunkCut
    \/ ChunkFilter

SpecChunk == ChunkInit /\ [][ChunkNext]_vars

\* the loop is the only thing running: it takes its next step
SpecChunkFair == SpecChunk /\ WF_vars(ChunkNext)

\* C32: chunk_chapter_text comes to its end for every chapter text and
\* every chunk_size >= 1, and each chunk it leaves in chapter.chunks is
\* non-empty and at most chunk_size characters long
C32_TerminatesWithBoundedChunks ==
    /\ <>(fcall.pc = "done")
    /\ [](fcall.pc = "done" =>
            \A i \in 1..Len(fcall.ret) :
                /\ Len(fcall.ret[i]) >= 1
                /\ Len(fcall.ret[i]) <= fcall.chunk_size)

\* a text longer than chunk_size was cut more than once and its chunks
\* include one of the full size and an empty one was dropped
C32_Witness ==
    /\ fcall.pc = "done"
    /\ Len(fcall.chapter_text) > fcall.chunk_size
    /\ Len(fcall.ret) >= 2
    /\ Len(fcall.ret) < Len(fcall.chunks)
    /\ \E i \in 1..Len(fcall.ret) : Len(fcall.ret[i]) = fcall.chunk_size



\* C34: a chunk index gets into a worker's completed_chunks only after the
\* chunk's audio was written to its file: at every point of a run each
\* index in completed_chunks has its whole artifact on the disk
C34_CompletedChunksArePersisted ==
    \A w \in WorkerIds :
        \A i \in 1..Len(workers[w].completed_chunks) :
            LET g == workers[w].completed_chunks[i]
                file_path == ChunkFile(chapters[ChapterOf(g)].dir_name, g)
            IN Exists(disk, file_path) /\ disk[file_path] = "full"

\* a worker has completed a chunk and a later write of another chunk was
\* cut short
C34_Witness ==
    \E w \in WorkerIds :
        /\ workers[w].completed_chunks # <<>>
        /\ \E p \in DOMAIN disk : disk[p] = "partial"



\* C35: after run_parallel_processing has returned, the completed count it
\* reports is the number of chunks whose artifacts were persisted during
\* the run, also when a worker raised after it had saved chunks
C35_ReportedCompletedIsPersisted ==
    rpc = "done" =>
        merged.returned[1] = Cardinality({g \in DOMAIN chunkLog : chunkLog[g] = "saved"})



C37_PassMeansAllAudio ==
    safety.pc = "done" =>
        /\ safety.ret[1] =>
              \A w \in DOMAIN safety.w : ~safety.w[w].limited /\ ~safety.w[w].no_audio
        /\ safety.workers_succeeded
              <= Cardinality({w \in DOMAIN safety.w : ~safety.w[w].no_audio})



\* ---------------------------------------------------------------------
\* SpecCleanup: the program runs either run_parallel_processing or
\* run_safety_test
\* ---------------------------------------------------------------------
CleanupInit == Init \/ SafetyInit

CleanupNext == Next \/ SafetyNext

SpecCleanup == CleanupInit /\ [][CleanupNext]_vars

\* C38: in worker_process_wrapper and in run_safety_test alike a worker's
\* cleanup() has run exactly when its task is finished, so after its last
\* request and before gather gets it back, whether the worker went through
\* its chunks, raised, or returned early on a rate limit; when the gather
\* is over every worker is cleaned up
C38_CleanupOnEveryPath ==
    /\ \A w \in WorkerIds :
          /\ workers[w].cleaned <=> workers[w].pc = "returned"
          /\ rpc = "done" => workers[w].cleaned
    /\ safety.pc \in {"gathering", "done"} =>
          \A w \in DOMAIN safety.w :
              /\ safety.w[w].cleaned <=> safety.w[w].pc = "returned"
              /\ safety.pc = "done" => safety.w[w].cleaned

\* the safety test is over: one worker returned early on a rate limit,
\* the other's initialize() raised, and both are cleaned up
C38_Witness ==
    /\ safety.pc = "done"
    /\ Len(safety.w) = 2
    /\ \E w \in {1, 2} : \E v \in {1, 2} :
         /\ safety.w[w].early
         /\ safety.w[w].cleaned
         /\ safety.w[v].pos = 0
         /\ safety.w[v].cleaned

\* a worker of the parallel run raised after a request and is cleaned up
\* while another is still at work
C38_WitnessParallel ==
    \E w \in WorkerIds : \E v \in WorkerIds :
        /\ raised[w]
        /\ workers[w].cleaned
        /\ workers[v].pc = "running"



\* C39: concatenate_chapter_mp3s never loses a checkpoint: it deletes chunk
\* files only when the merged file exists and has passed the size check,
\* and whenever it fails (ffmpeg error, timeout, exception, size mismatch)
\* every chunk file is left as it was and no merged file is returned
C39_ConcatenationKeepsCheckpoints ==
    fcall.fn = "concatenate_chapter_mp3s" =>
        LET files == Range(fcall.chunk_files)
            output_path == ConcatFile(fcall.chapter_name)
            deleted == {f \in files : Exists(fcall.before, f) /\ ~Exists(fcall.after, f)}
            merged_whole == /\ Exists(fcall.after, output_path)
                            /\ fcall.after[output_path] = "full"
        IN /\ deleted # {} => merged_whole
           /\ fcall.ret # <<>> => (fcall.ret = <<output_path>> /\ merged_whole)
           /\ fcall.ret = <<>> =>
                 \A f \in files :
                     Exists(fcall.before, f) =>
                         (Exists(fcall.after, f) /\ fcall.after[f] = fcall.before[f])

=============================================================================
